---- MODULE Spec2Model ----
(***************************************************************************)
(* Run orchestrator of show-and-tell: RunState (backend/app/api.py), the   *)
(* runner task of POST /runs/start and PlanRunner (backend/app/runner.py). *)
(*                                                                         *)
(* Scheduling.  Everything runs on one asyncio event loop, so a coroutine  *)
(* runs without interruption from one suspension to the next.  The         *)
(* RunState lock is never held across an await and the subscriber queues   *)
(* are unbounded, so `async with self._lock` and `await queue.put(...)`    *)
(* return without suspending.  The runner task is suspended only while it  *)
(* awaits the browser, the agent or a handshake future: those places are   *)
(* the values of pc in YieldPoints, and every other task's handler runs    *)
(* only while the runner task is at one of them (or has ended).            *)
(***************************************************************************)
EXTENDS Integers, Sequences, FiniteSets, TLC

\* ---------------------------------------------------------------- bounds
MaxSteps == 1        \* steps of the plan given to the runner
MaxAborts == 1       \* calls of request_abort in one behaviour
MaxOtherCalls == 2   \* handshake calls of the second client in one behaviour
MaxTicks == 7        \* sweep intervals the clock advances in one behaviour
Quantum == 30        \* seconds by which the clock advances at a time

\* ------------------------------------------------------- program constants
MAX_TURNS_PER_STEP == 2   \* RUNNER_MAX_TURNS=2 in the environment (4 when unset)
COMPLETED_RUN_TTL == 300  \* RunRegistry.COMPLETED_RUN_TTL, seconds
SweepInterval == 60       \* asyncio.sleep(60) of RunRegistry._cleanup_loop, seconds
CHECKPOINT_SIMILARITY_THRESHOLD == 88   \* RUNNER_CHECKPOINT_THRESHOLD 0.88, in hundredths

\* Similarity scores _visual_match_score may give, in hundredths.
Scores == {0, 87, 88, 96}

\* action.safety_decision == "require_confirmation", per action of a decision;
\* propose_actions never returns an empty list of actions.  The agent proposes an
\* action that requires confirmation followed by one that does not.
Decisions == {<<TRUE, FALSE>>}

Subs == {"s1", "s2"}             \* websocket clients of /ws/runs/{run_id}
VarNames == {"person", "token"}  \* placeholder names of a plan
NameOrder == <<"person", "token">>   \* the names as sorted() orders them
\* Kinds of value of a variable in a request or in a plan: "absent" for a name
\* that is no key, "null" for None, "blank" for "" and whitespace, "text" for any
\* other string, "number" for an int or a float.
Values == {"absent", "null", "blank", "text", "number"}
NoVars == [n \in VarNames |-> "absent"]
NoResponse == [status_code |-> 0, detail |-> <<>>]   \* the handler has not run
\* Replies of the operator to a variable_prompt.
Replies == {[person |-> "text", token |-> v] : v \in Values}
              \cup {[person |-> "number", token |-> "text"]}

\* sorted(names), as a list.
Sorted(names) ==
    LET In(n) == n \in names IN SelectSeq(NameOrder, In)
\* The runs: with a start url and every placeholder resolved, or without a start
\* url and with the placeholder unresolved.
Runs == {[start_url |-> TRUE, missing |-> {}],
         [start_url |-> FALSE, missing |-> VarNames]}
Callers == {"runner", "other"}   \* coroutines that may call the RunState handshakes

VARIABLES
    \* inputs of the run (fixed by Init)
    nsteps,                \* len(plan.steps)
    start_url,             \* TRUE iff RunState.start_url is a non-empty string
    embedded,              \* what wait_for_embedded_page meets on the start page
    plan,                  \* a Plan handed to normalize_plan_variables
    normal,                \* what the successive normalize_plan_variables calls returned
    point,                 \* the (x_norm, y_norm) handed to _denormalize_point
    pixel,                 \* <<>>, or <<what _denormalize_point returned>>
    instructions,          \* TRUE iff the steps carry non-empty instructions
    missing,               \* names _missing_plan_variables finds unresolved
    checkpoints,           \* TRUE iff callbacks.get_checkpoints gives the steps a checkpoint
    stored,                \* TRUE iff the StoredPlan of the run has checkpoints for its steps
    clients,               \* websocket clients that connect to the run
    \* POST /runs/start
    placeholders,          \* placeholder names collect_plan_placeholders finds in the plan
    plan_vars,             \* stored_plan.plan.vars
    provided_vars,         \* request.variables or {}
    response,              \* status code and detail of the handler's response
    \* RunRegistry and the clock
    registered,            \* TRUE iff the run is in RunRegistry._runs
    now,                   \* datetime.utcnow(), in seconds since the run was created
    next_sweep,            \* when the asyncio.sleep of _cleanup_loop is over
    \* RunState (completed_at: <<>> for None, <<t>> for the time t)
    status, completed_at, abort_event, subscribers, queues,
    consumed,              \* per subscriber, the messages _websocket_sender took from the queue
    latest_frame, latest_status, confirmation_future, variables_future,
    \* futures created by request_confirmation / request_variables, per caller
    conf_fut, var_fut, var_values,
    \* runner task
    pc, step, turn, actions, action_failed, outcome, error,
    require_visual_match,  \* the local of _run_step: bool(checkpoints)
    history,               \* the list `history` of _execute_with_browser
    opened,                \* what PlanRunner.run has opened: browser, context, page
    closed,                \* the close() calls made so far, in order
    \* the second client of the handshake API (specification SpecHandshake)
    other_pc, other_calls,
    \* history of the calls (not program state)
    published,             \* every message passed to RunState.publish, in call order
    joined_at,             \* Len(published) when the subscriber's queue was registered
    boot,                  \* number of bootstrap messages at the head of a queue
    gate,                  \* confirmation of the action at hand: none/prompted/allowed/declined
    aborts,                \* number of request_abort calls so far
    abort_in_var_wait,     \* position in `published` of the abort_requested of the first
                           \* request_abort made while the runner's variable request was
                           \* pending (0: none)
    abort_in_conf_wait,    \* the same for the runner's pending confirmation
    rejected,              \* handshake calls refused because one was pending
    completed_at_writes,   \* number of assignments to completed_at
    \* teach mode
    sessions,              \* TeachManager._sessions: the session ids, in insertion order
    session,               \* the TeachSession object made for each id
    teach_time,            \* time.time(), in ticks
    ws_open,               \* the ids with a /ws/teach/{teach_id} handler in its receive loop
    received,              \* per id, the mouse messages its handlers have read (history)
    stopping,              \* the id popped by a TeachManager.stop call that has not returned
    stop_result            \* what the last TeachManager.stop call returned

inputs == <<nsteps, start_url, embedded, instructions, missing, checkpoints, stored,
           clients>>
planning == <<plan, normal, point, pixel>>
request == <<placeholders, plan_vars, provided_vars, response, planning>>
registry == <<registered, now, next_sweep>>
bus == <<queues, latest_frame, latest_status, published>>
futures == <<confirmation_future, variables_future, conf_fut, var_fut, var_values>>
runner == <<pc, step, turn, actions, action_failed, outcome, error,
            require_visual_match, history, opened, closed>>
ghost == <<joined_at, boot, gate, aborts, abort_in_var_wait, abort_in_conf_wait,
             rejected, completed_at_writes>>
stops == <<stopping, stop_result>>
teach == <<sessions, session, teach_time, ws_open, received, stops>>
vars == <<inputs, request, consumed, teach, registry, status, completed_at, abort_event, subscribers, bus, futures,
          runner, other_pc, other_calls, ghost>>

TeachIds == {"teach_1", "teach_2"}   \* f"teach_{int(time.time() * 1000)}"
Keys == {"a", "b"}                   \* the `key` of a key_down or key_up message

\* A TeachSession as its constructor leaves it, created at time t.
TeachSession(t) ==
    [running |-> TRUE,
     created_at |-> t,
     events |-> <<>>,
     frames |-> <<>>,
     last_frame_ts |-> 0,
     stored |-> 0,
     pressed_keys |-> [k \in Keys |-> <<>>],
     mouse_down_state |-> <<>>]

MaxText == 5               \* length of the longest text of a plan

\* The characters of a plan's texts.
Chars == {"{", "}", " ", "a"}

Texts == UNION {[1..n -> Chars] : n \in 0..MaxText}

\* The keys of the variable maps: the name a and the name b.
KeyA == <<"a">>
KeyB == <<"b">>

\* The plans: any text as name, one step with either of two instructions, and
\* a variable map that holds the names a and b or not.
Plans ==
    [name : Texts,
     steps : {<<[title |-> <<>>, instructions |-> t]>> :
                 t \in {<<>>, <<"{", "{", " ", "b", "}", "}">>}},
     vars : UNION {[K -> {"x"}] : K \in SUBSET {KeyA, KeyB}},
     has_variables : BOOLEAN]

\* No plan is being normalized.
NoPlan ==
    /\ plan = [name |-> <<>>, steps |-> <<>>, vars |-> <<>>, has_variables |-> FALSE]
    /\ normal = <<>>
    /\ point = <<>>
    /\ pixel = <<>>

MaxPolls == 2              \* turns of the polling loop that fit in the timeout

\* What one turn of the polling loop finds: no eligible child frame, one that
\* does not reach its load state in time, or one that is ready.
Polls == {"no_frame", "loading", "ready"}

\* The start pages: whether the timeout is positive, whether the page itself
\* is on the expected host, and what each turn of the loop finds.
Pages ==
    [timeout_positive : BOOLEAN, main_is_host : BOOLEAN,
     polls : [1..MaxPolls -> Polls]]

ReadyPage ==
    [timeout_positive |-> TRUE, main_is_host |-> FALSE,
     polls |-> [i \in 1..MaxPolls |-> "ready"]]

StuckPage ==
    [timeout_positive |-> TRUE, main_is_host |-> FALSE,
     polls |-> [i \in 1..MaxPolls |-> "loading"]]

\* No start page is opened.
NoPage ==
    [timeout_positive |-> FALSE, main_is_host |-> FALSE,
     polls |-> [i \in 1..MaxPolls |-> "no_frame"]]

\* A start page whose embedded frame loads or hangs.
UsualPage == embedded \in IF start_url THEN {ReadyPage, StuckPage} ELSE {NoPage}

\* The polling loop of wait_for_embedded_page from turn i on.
RECURSIVE PollFrom(_, _, _)
PollFrom(page, i, saw_frame) ==
    IF i > MaxPolls
    THEN IF saw_frame THEN "raised" ELSE "returned"
    ELSE IF page.polls[i] = "no_frame" THEN PollFrom(page, i + 1, saw_frame)
    ELSE IF page.polls[i] = "loading" THEN PollFrom(page, i + 1, TRUE)
    ELSE "returned"

\* wait_for_embedded_page that gives up when it never saw a frame.
wait_for_embedded_page_Strict(page) ==
    IF ~page.timeout_positive THEN "returned"
    ELSE IF page.main_is_host THEN "returned"
    ELSE IF PollFrom(page, 1, TRUE) = "raised" THEN "raised" ELSE "returned"

\* wait_for_embedded_page: "returned", or "raised" for its RuntimeError.
wait_for_embedded_page(page) ==
    IF ~page.timeout_positive THEN "returned"
    ELSE IF page.main_is_host THEN "returned"
    ELSE PollFrom(page, 1, FALSE)

\* What TeachManager.stop returns (recordingId, frames and markers left out).
StopResult(ok, reason, id, events) ==
    [ok |-> ok, reason |-> reason, teachId |-> id, events |-> events]

\* stop was never called.
NoStop == StopResult(FALSE, "never called", "None", <<>>)

\* No teach session was ever started.
TeachIdle ==
    /\ sessions = <<>>
    /\ session = [id \in TeachIds |-> [TeachSession(0) EXCEPT !.running = FALSE]]
    /\ teach_time = 0
    /\ ws_open = {}
    /\ received = [id \in TeachIds |-> <<>>]
    /\ stopping = <<>>
    /\ stop_result = NoStop


\* ---------------------------------------------------------------- messages
Msg(type, message, error_, stepId) ==
    [type |-> type, message |-> message, error |-> error_, stepId |-> stepId,
     vars |-> <<>>]

RunnerStatus(message) == Msg("runner_status", message, "", 0)
FailedStatus(err) == Msg("runner_status", "failed", err, 0)
Event(type, stepId) == Msg(type, "", "", stepId)
Console(role, stepId) == Msg("console", role, "", stepId)
Frame(stepId) == Msg("runner_frame", "", "", stepId)

\* variable_prompt and variables_applied carry the names of the variables.
VarsMsg(type, names) == [Msg(type, "", "", 0) EXCEPT !.vars = names]

TerminalMessages == {"completed", "aborted", "failed"}
IsTerminal(m) == m.type = "runner_status" /\ m.message \in TerminalMessages

\* ------------------------------------------------ RunState.publish (fan-out)
\* The state of the fan-out as one value, so that a handler's publishes compose.
Bus == [queues |-> queues, latest_frame |-> latest_frame,
        latest_status |-> latest_status, published |-> published]

\* A queue that hands out the newest message first.
QueuePut_Front(q, n) == <<n>> \o q

\* queue.put(message): the message joins the tail of the subscriber's queue.
\* A queue holds the messages by their position in `published`.
QueuePut(q, n) == Append(q, n)

\* publish that keeps the first frame as the latest one.
publish_FirstFrameKept(b, subs, m) ==
    LET n == Len(b.published) + 1 IN
    [queues |-> [s \in Subs |-> IF s \in subs THEN QueuePut(b.queues[s], n)
                                             ELSE b.queues[s]],
     latest_frame |-> IF m.type = "runner_frame" /\ b.latest_frame = 0
                      THEN n ELSE b.latest_frame,
     latest_status |-> IF m.type = "runner_frame" THEN b.latest_status ELSE n,
     published |-> Append(b.published, m)]

\* publish that serves one subscriber only.
publish_OneQueue(b, subs, m) ==
    LET n == Len(b.published) + 1
        one == IF subs = {} THEN {} ELSE {CHOOSE s \in subs : TRUE}
    IN
    [queues |-> [s \in Subs |-> IF s \in one THEN QueuePut(b.queues[s], n)
                                             ELSE b.queues[s]],
     latest_frame |-> IF m.type = "runner_frame" THEN n ELSE b.latest_frame,
     latest_status |-> IF m.type = "runner_frame" THEN b.latest_status ELSE n,
     published |-> Append(b.published, m)]

\* RunState.publish with the subscriber set subs.
publish(b, subs, m) ==
    LET n == Len(b.published) + 1 IN
    [queues |-> [s \in Subs |-> IF s \in subs THEN QueuePut(b.queues[s], n)
                                             ELSE b.queues[s]],
     latest_frame |-> IF m.type = "runner_frame" THEN n ELSE b.latest_frame,
     latest_status |-> IF m.type = "runner_frame" THEN b.latest_status ELSE n,
     published |-> Append(b.published, m)]

\* Consecutive publish calls of one handler (no suspension in between).
RECURSIVE publishAll(_, _, _)
publishAll(b, subs, ms) ==
    IF ms = <<>> THEN b
    ELSE publishAll(publish(b, subs, Head(ms)), subs, Tail(ms))

SetBus(b) ==
    /\ queues' = b.queues
    /\ latest_frame' = b.latest_frame
    /\ latest_status' = b.latest_status
    /\ published' = b.published

\* ------------------------------------------------------------- handshakes
\* A handler works on a record of everything it may change; msgs collects the
\* messages it publishes, in order.
Frame0 ==
    [pc |-> pc, step |-> step, turn |-> turn, actions |-> actions,
     action_failed |-> action_failed, outcome |-> outcome, error |-> error,
     require_visual_match |-> require_visual_match, history |-> history,
     opened |-> opened, closed |-> closed,
     confirmation_future |-> confirmation_future, conf_fut |-> conf_fut,
     variables_future |-> variables_future, var_fut |-> var_fut,
     gate |-> gate, rejected |-> rejected, raised |-> FALSE, msgs |-> <<>>]

\* request_confirmation without the check of the slot.
request_confirmation_Unguarded(r, c, stepId) ==
    [r EXCEPT !.confirmation_future = c,
              !.conf_fut[c] = "pending",
              !.msgs = Append(@, Event("safety_prompt", stepId))]

\* RunState.request_confirmation up to `await future`, called by c.
request_confirmation(r, c, stepId) ==
    IF r.confirmation_future # "None"
    THEN [r EXCEPT !.raised = TRUE, !.rejected = @ + 1]
    ELSE [r EXCEPT !.confirmation_future = c,
                   !.conf_fut[c] = "pending",
                   !.msgs = Append(@, Event("safety_prompt", stepId))]

\* ... and from the resumption of `await future` on: the finally clause.
confirmation_done(r, c) ==
    [r EXCEPT !.confirmation_future = "None", !.conf_fut[c] = "none"]

\* RunState.request_variables up to `await future`, called by c.
request_variables(r, c) ==
    IF r.variables_future # "None"
    THEN [r EXCEPT !.raised = TRUE, !.rejected = @ + 1]
    ELSE [r EXCEPT !.variables_future = c,
                   !.var_fut[c] = "pending",
                   !.msgs = Append(@, VarsMsg("variable_prompt", Sorted(missing)))]

variables_done(r, c) ==
    [r EXCEPT !.variables_future = "None", !.var_fut[c] = "none"]

\* --------------------------------------------------------------- PlanRunner
BrowserAwaits == {"launch", "goto", "capture0", "turn", "apply", "action_frame", "final_frame"}
HandshakeAwaits == {"wait_vars", "wait_conf"}
YieldPoints == BrowserAwaits \cup HandshakeAwaits \cup {"closing"}
\* The awaits at which the model lets an exception other than RunnerError and
\* AbortRequested arrive: opening the browser, the agent call, a browser action.
CrashPoints == {"launch", "turn", "apply"}

\* The text of the exception raised by the await at a crash point.
CrashError(at) ==
    CASE at = "launch" -> "browser error: launch"
      [] at = "turn" -> "agent error"
      [] at = "apply" -> "browser error: action"

\* An exception leaves _execute_with_browser through `finally: page.close()`.
Raise(r, kind, err) == [r EXCEPT !.pc = "closing", !.outcome = kind, !.error = err]

\* The turn loop with one turn too many.
EnterTurn_OneMore(r) ==
    IF r.turn > MAX_TURNS_PER_STEP + 1
    THEN Raise(r, "runner_error", "Exceeded max turns")
    ELSE IF abort_event THEN Raise(r, "abort", "")
    ELSE [r EXCEPT !.pc = "turn", !.action_failed = FALSE, !.actions = <<>>]

\* The turn loop without its abort check.
EnterTurn_NoAbortCheck(r) ==
    IF r.turn > MAX_TURNS_PER_STEP THEN Raise(r, "runner_error", "Exceeded max turns")
    ELSE [r EXCEPT !.pc = "turn", !.action_failed = FALSE, !.actions = <<>>]

\* Top of `for turn in range(1, MAX_TURNS_PER_STEP + 1)`, r.turn the turn to start;
\* past the last turn the loop falls through to the raise at its end.
EnterTurn(r) ==
    IF r.turn > MAX_TURNS_PER_STEP THEN Raise(r, "runner_error", "Exceeded max turns")
    ELSE IF abort_event THEN Raise(r, "abort", "")
    ELSE [r EXCEPT !.pc = "turn", !.action_failed = FALSE, !.actions = <<>>]

\* The NameError of _ensure_checkpoint_hashes: it calls _decode_base64_png, which
\* is defined in the body of class PlanRunner and is no global name.
HashHelperError == "name '_decode_base64_png' is not defined"

\* _run_step that takes no step to have checkpoints.
RunStep_NoVisualMatch(r) ==
    EnterTurn([r EXCEPT !.require_visual_match = FALSE, !.turn = 1])

\* Start of _run_step: the checkpoints of the step, their hashes, the first turn.
RunStep(r) ==
    LET r1 == [r EXCEPT !.require_visual_match = checkpoints, !.turn = 1] IN
    IF r1.require_visual_match THEN Raise(r1, "exception", HashHelperError)
    ELSE EnterTurn(r1)

\* The step loop without its abort check.
StepLoop_NoAbortCheck(r) ==
    IF r.step > nsteps
    THEN [r EXCEPT !.msgs = Append(@, Event("run_completed", 0)),
                   !.pc = "closing", !.outcome = "return"]
    ELSE RunStep([r EXCEPT
            !.msgs = @ \o <<Event("step_started", r.step)>>
                       \o (IF instructions
                           THEN <<Console("Plan instructions", r.step)>> ELSE <<>>)])

\* Top of `for raw_step in plan.steps`, r.step the step to start.
StepLoop(r) ==
    IF r.step > nsteps
    THEN [r EXCEPT !.msgs = Append(@, Event("run_completed", 0)),
                   !.pc = "closing", !.outcome = "return"]
    ELSE IF abort_event THEN Raise(r, "abort", "")
    ELSE RunStep([r EXCEPT
            !.msgs = @ \o <<Event("step_started", r.step)>>
                       \o (IF instructions
                           THEN <<Console("Plan instructions", r.step)>> ELSE <<>>)])

\* A step loop that goes on to the next step without step_completed.
StepDone_NoCompleted(r) ==
    StepLoop([r EXCEPT !.step = @ + 1])

\* A _run_step that takes another turn where it should return.
StepDone_OneMoreTurn(r) ==
    EnterTurn([r EXCEPT !.turn = @ + 1])

\* _run_step returned: step_completed, then the next step.
StepDone(r) ==
    StepLoop([r EXCEPT !.msgs = Append(@, Event("step_completed", r.step)),
                       !.step = @ + 1])

\* PlanRunner._prepare_plan_variables up to the await of request_variables.
PrepareVariables(r) ==
    IF missing = {} THEN StepLoop([r EXCEPT !.step = 1])
    ELSE LET r1 == [r EXCEPT !.msgs = Append(@, Console("Runner", 0))] IN
         IF abort_event THEN Raise(r1, "abort", "")
         ELSE LET q == request_variables(r1, "runner") IN
              IF q.raised
              THEN Raise([q EXCEPT !.raised = FALSE], "runner_error",
                         "Variable handshake failed")
              ELSE [q EXCEPT !.pc = "wait_vars"]

\* `for action in decision.actions`, r.actions the actions not yet handled.
NextAction(r) ==
    IF r.actions = <<>> THEN [r EXCEPT !.pc = "final_frame"]
    ELSE IF Head(r.actions)
         THEN LET q == request_confirmation(r, "runner", r.step) IN
              IF q.raised
              THEN Raise([q EXCEPT !.raised = FALSE], "exception",
                         "Confirmation already pending")
              ELSE [q EXCEPT !.pc = "wait_conf", !.gate = "prompted"]
         ELSE [r EXCEPT !.pc = "apply", !.gate = "none"]

\* The handler's effects become the next state.
Commit(r) ==
    /\ pc' = r.pc /\ step' = r.step /\ turn' = r.turn /\ actions' = r.actions
    /\ action_failed' = r.action_failed /\ outcome' = r.outcome /\ error' = r.error
    /\ require_visual_match' = r.require_visual_match /\ history' = r.history
    /\ opened' = r.opened /\ closed' = r.closed
    /\ confirmation_future' = r.confirmation_future /\ conf_fut' = r.conf_fut
    /\ variables_future' = r.variables_future /\ var_fut' = r.var_fut
    /\ gate' = r.gate /\ rejected' = r.rejected
    /\ SetBus(publishAll(Bus, subscribers, r.msgs))

RunnerKept ==
    UNCHANGED <<inputs, request, consumed, teach, registry, status, completed_at, abort_event, subscribers,
                other_pc, other_calls, joined_at, boot, aborts, abort_in_var_wait,
                abort_in_conf_wait, completed_at_writes>>

RunnerUnchanged == RunnerKept /\ UNCHANGED var_values


\* chromium.launch, browser.new_context and context.new_page, in this order.
Resources == <<"browser", "context", "page">>

\* _execute_with_browser: the page is open; browser_ready, then the start url.
BrowserReady ==
    /\ pc = "launch"
    /\ Commit([Frame0 EXCEPT !.msgs = <<RunnerStatus("browser_ready")>>,
                             !.opened = Resources,
                             !.pc = IF start_url THEN "goto" ELSE "capture0"])
    /\ RunnerUnchanged

\* page.goto and wait_for_embedded_page returned, or the latter raised RuntimeError.
StartUrlLoaded ==
    /\ pc = "goto"
    /\ LET ready == wait_for_embedded_page(embedded) = "returned" IN
        Commit(IF ready
               THEN [Frame0 EXCEPT !.msgs = <<Event("navigate", 0)>>, !.pc = "capture0"]
               ELSE Raise(Frame0, "runner_error", "Start url iframe not ready"))
    /\ RunnerUnchanged

\* The first _emit_frame, then _prepare_plan_variables.
InitialFrame ==
    /\ pc = "capture0"
    /\ Commit(PrepareVariables([Frame0 EXCEPT !.msgs = <<Frame(0)>>]))
    /\ RunnerUnchanged

\* PlanRunner._coerce_runtime_variable: None and blank strings give None, a
\* string is stripped, a number is kept.
coerce_runtime_variable(value) ==
    IF value \in {"null", "blank"} THEN "null" ELSE value

\* missing_after that takes every key of the reply for a value.
MissingAfter_KeysOnly(names, provided) ==
    {n \in names : provided[n] = "absent"}

\* missing_after of _prepare_plan_variables: the requested names that are no key
\* of the reply or whose coerced value is None.
MissingAfter(names, provided) ==
    {n \in names : \/ provided[n] = "absent"
                   \/ coerce_runtime_variable(provided[n]) = "null"}

\* request_variables resumes: its finally clause (the future and its result are
\* dropped), then the rest of _prepare_plan_variables and the start of the step
\* loop.
VariablesReceived ==
    /\ pc = "wait_vars"
    /\ var_fut["runner"] \in {"result", "abort"}
    /\ LET r == variables_done(Frame0, "runner") IN
       Commit(IF var_fut["runner"] = "abort" THEN Raise(r, "abort", "")
              ELSE IF abort_event THEN Raise(r, "abort", "")
              ELSE IF MissingAfter(missing, var_values) # {}
                   THEN Raise(r, "runner_error", "Missing values for variables")
              ELSE StepLoop([r EXCEPT
                        !.msgs = <<VarsMsg("variables_applied", Sorted(missing))>>,
                        !.step = 1]))
    /\ var_values' = NoVars
    /\ RunnerKept

\* The RunnerDecisionError of a disabled agent (raised before a prompt is built)
\* and those of an agent whose response has no candidates or no supported action.
AgentDisabled == "Computer Use agent disabled"
NoCandidates == "Computer Use returned no candidates"
NoSupportedActions == "Computer Use returned no supported actions"
DecisionErrors == {AgentDisabled, NoCandidates, NoSupportedActions}

\* An `except RunnerDecisionError` that publishes nothing.
DecisionErrorConsoles_None(err, stepId) == <<>>

\* `except RunnerDecisionError`: the console messages for the prompt and the
\* response summary the error carries.
DecisionErrorConsoles(err, stepId) ==
    IF err = AgentDisabled THEN <<>>
    ELSE <<Console("ComputerUse prompt", stepId), Console("ComputerUse response", stepId)>>

\* The screenshot was taken and propose_actions returned a decision or raised
\* RunnerDecisionError.  The agent is enabled or disabled for good: a disabled
\* one raises at its first call.
ProposeActions ==
    /\ pc = "turn"
    /\ \/ \E d \in Decisions :
            Commit(NextAction([Frame0 EXCEPT
                !.msgs = <<Console("ComputerUse prompt", step),
                           Console("ComputerUse response", step)>>,
                !.actions = d]))
       \/ \E err \in DecisionErrors :
            /\ err = AgentDisabled => (step = 1 /\ turn = 1)
            /\ Commit(Raise([Frame0 EXCEPT !.msgs = DecisionErrorConsoles(err, step)],
                            "runner_error", err))
    /\ RunnerUnchanged

\* request_confirmation resumes with the operator's reply.
ConfirmationReceived ==
    /\ pc = "wait_conf"
    /\ conf_fut["runner"] \in {"true", "false"}
    /\ LET r == confirmation_done(Frame0, "runner") IN
       Commit(IF conf_fut["runner"] = "true" THEN [r EXCEPT !.pc = "apply"]
              ELSE Raise(r, "runner_error", "Action declined by operator"))
    /\ RunnerUnchanged

\* _apply_action returned, or raised RunnerError.
ApplyAction ==
    /\ pc = "apply"
    /\ \E ok \in BOOLEAN :
        Commit(IF ok
               THEN [Frame0 EXCEPT !.msgs = <<Event("action_executed", step)>>,
                                   !.history = Append(@, "summary"),
                                   !.pc = "action_frame"]
               ELSE [Frame0 EXCEPT !.msgs = <<Console("Runner", step)>>,
                                   !.history = Append(@, "error"),
                                   !.action_failed = TRUE,
                                   !.pc = "final_frame"])
    /\ RunnerUnchanged

\* _emit_frame after an action, then the next action of the decision.
ActionFrame ==
    /\ pc = "action_frame"
    /\ Commit(NextAction([Frame0 EXCEPT !.msgs = <<Frame(step)>>,
                                        !.actions = Tail(@),
                                        !.gate = "none"]))
    /\ RunnerUnchanged

\* checkpoint_evaluated; of its score the message keeps how it compares with the
\* threshold.
CheckpointEvaluated(matched, stepId) ==
    Msg("checkpoint_evaluated",
        IF matched THEN "score >= threshold" ELSE "score < threshold", "", stepId)

\* The end of a turn without a failed action of a step with checkpoints:
\* _visual_match_score gave score (in hundredths).
CheckpointDecision(r, score) ==
    LET matched == score >= CHECKPOINT_SIMILARITY_THRESHOLD
        r1 == [r EXCEPT !.msgs = Append(@, CheckpointEvaluated(matched, r.step))]
    IN
    IF matched
    THEN StepDone([r1 EXCEPT !.msgs = Append(@, Event("checkpoint_matched", r.step))])
    ELSE EnterTurn([r1 EXCEPT !.turn = @ + 1])

\* _emit_frame at the end of the turn, then the decision whether the step is done.
FinalFrame ==
    /\ pc = "final_frame"
    /\ LET r == [Frame0 EXCEPT !.msgs = <<Frame(step)>>] IN
       IF action_failed THEN Commit(EnterTurn([r EXCEPT !.turn = @ + 1]))
       ELSE IF require_visual_match
            THEN \E score \in Scores : Commit(CheckpointDecision(r, score))
            ELSE Commit(StepDone(r))
    /\ RunnerUnchanged

\* An await on the browser or the agent raised an exception that is neither
\* RunnerError nor AbortRequested (a Playwright error, say); opening the browser
\* fails at launch, at new_context or at new_page.
BrowserCrash ==
    /\ pc \in CrashPoints
    /\ \E got \in 0..2 :
        /\ pc # "launch" => got = 0
        /\ Commit(Raise([Frame0 EXCEPT
                            !.opened = IF pc = "launch" THEN SubSeq(Resources, 1, got) ELSE @],
                        "exception", CrashError(pc)))
    /\ RunnerUnchanged

\* ------------------------------------------------ runs_start._runner_task
\* Finally clauses that leave the context to the browser.
Cleanup_NoContext(opened_) ==
    LET has(x) == \E i \in DOMAIN opened_ : opened_[i] = x IN
    (IF has("page") THEN <<"page">> ELSE <<>>)
        \o (IF has("browser") THEN <<"browser">> ELSE <<>>)

\* The close() calls of the finally clauses that run when the task leaves
\* PlanRunner.run: page and context if _execute_with_browser entered its try
\* statement (the page is open), then the browser if run entered its own.
Cleanup(opened_) ==
    LET has(x) == \E i \in DOMAIN opened_ : opened_[i] = x IN
    (IF has("page") THEN <<"page", "context">> ELSE <<>>)
        \o (IF has("browser") THEN <<"browser">> ELSE <<>>)

\* A _runner_task that marks a finished run as running.
StatusOf_Running(outcome_, status_) ==
    CASE outcome_ = "return" -> "running"
      [] outcome_ = "abort" -> "aborted"
      [] outcome_ = "cancelled" -> status_
      [] OTHER -> "failed"

\* The status after the branch of _runner_task taken for an outcome; a
\* CancelledError is no Exception, so no branch is taken for it.
StatusOf(outcome_, status_) ==
    CASE outcome_ = "return" -> "completed"
      [] outcome_ = "abort" -> "aborted"
      [] outcome_ = "cancelled" -> status_
      [] OTHER -> "failed"

\* _runner_task whose AbortRequested branch publishes nothing.
TerminalStatus_AbortSilent(outcome_, err) ==
    CASE outcome_ = "return" -> <<RunnerStatus("completed")>>
      [] outcome_ \in {"abort", "cancelled"} -> <<>>
      [] OTHER -> <<FailedStatus(err)>>

\* The runner_status message of the branch of _runner_task taken for an outcome.
TerminalStatus(outcome_, err) ==
    CASE outcome_ = "return" -> <<RunnerStatus("completed")>>
      [] outcome_ = "abort" -> <<RunnerStatus("aborted")>>
      [] outcome_ = "cancelled" -> <<>>
      [] OTHER -> <<FailedStatus(err)>>

\* The runner task is cancelled while it is suspended (asyncio cancels the tasks
\* left when the event loop shuts down): CancelledError is raised at the await.
CancelTask ==
    /\ pc \in YieldPoints \ {"closing"}
    /\ Commit(Raise(IF pc = "wait_conf" THEN confirmation_done(Frame0, "runner")
                    ELSE IF pc = "wait_vars" THEN variables_done(Frame0, "runner")
                    ELSE Frame0,
                    "cancelled", ""))
    /\ RunnerUnchanged

\* _runner_task whose branches assign completed_at as well as the finally clause.
CloseBrowser_AlsoStamps ==
    /\ pc = "closing"
    /\ status' = StatusOf(outcome, status)
    /\ completed_at' = <<now>>
    /\ completed_at_writes' = completed_at_writes + 1
    /\ Commit([Frame0 EXCEPT !.msgs = TerminalStatus(outcome, error),
                             !.closed = Cleanup(opened),
                             !.pc = "finally"])
    /\ UNCHANGED <<inputs, request, consumed, teach, registry, abort_event, subscribers, var_values,
                   other_pc, other_calls, joined_at, boot, aborts,
                   abort_in_var_wait, abort_in_conf_wait>>

\* page.close(), context.close() and browser.close() returned: plan_runner.run
\* is over, and the branch of _runner_task for its outcome assigns the status
\* and publishes the terminal message.
CloseBrowser ==
    /\ pc = "closing"
    /\ status' = StatusOf(outcome, status)
    /\ Commit([Frame0 EXCEPT !.msgs = TerminalStatus(outcome, error),
                             !.closed = Cleanup(opened),
                             !.pc = "finally"])
    /\ UNCHANGED <<inputs, request, consumed, teach, registry, completed_at, abort_event, subscribers, var_values,
                   other_pc, other_calls, joined_at, boot, aborts,
                   abort_in_var_wait, abort_in_conf_wait, completed_at_writes>>

\* `finally: state.completed_at = datetime.utcnow()`, and the task ends.
MarkCompleted ==
    /\ pc = "finally"
    /\ completed_at' = <<now>>
    /\ completed_at_writes' = completed_at_writes + 1
    /\ pc' = "done"
    /\ UNCHANGED <<inputs, request, consumed, teach, registry, status, abort_event, subscribers, bus, futures,
                   step, turn, actions, action_failed, outcome, error,
                   require_visual_match, history, opened, closed, other_pc,
                   other_calls, joined_at, boot, gate, aborts, abort_in_var_wait,
                   abort_in_conf_wait, rejected>>

\* ------------------------------------------------- handlers of other tasks
\* The runner task is suspended (or over), so another task can run.
Suspended == pc \in YieldPoints \cup {"done"}

\* The messages add_subscriber puts into the new queue.
Bootstrap(status_, frame_) ==
    (IF status_ # 0 THEN <<status_>> ELSE <<>>) \o (IF frame_ # 0 THEN <<frame_>> ELSE <<>>)

\* runs_ws: a client connects; RunState.add_subscriber.
AddSubscriber(s) ==
    /\ Suspended
    /\ s \in clients \ subscribers
    /\ registered
    /\ subscribers' = subscribers \cup {s}
    /\ queues' = [queues EXCEPT ![s] = Bootstrap(latest_status, latest_frame)]
    /\ consumed' = [consumed EXCEPT ![s] = 0]
    /\ boot' = [boot EXCEPT ![s] = Len(Bootstrap(latest_status, latest_frame))]
    /\ joined_at' = [joined_at EXCEPT ![s] = Len(published)]
    /\ UNCHANGED <<inputs, request, teach, registry, status, completed_at, abort_event, latest_frame,
                   latest_status, published, futures, runner, other_pc, other_calls, gate,
                   aborts,
                   abort_in_var_wait, abort_in_conf_wait, rejected,
                   completed_at_writes>>

\* runs_ws: the client is gone; RunState.remove_subscriber, and the queue with it.
RemoveSubscriber(s) ==
    /\ Suspended
    /\ s \in subscribers
    /\ subscribers' = subscribers \ {s}
    /\ queues' = [queues EXCEPT ![s] = <<>>]
    /\ consumed' = [consumed EXCEPT ![s] = 0]
    /\ boot' = [boot EXCEPT ![s] = 0]
    /\ joined_at' = [joined_at EXCEPT ![s] = 0]
    /\ UNCHANGED <<inputs, request, teach, registry, status, completed_at, abort_event, latest_frame,
                   latest_status, published, futures, runner, other_pc, other_calls, gate,
                   aborts,
                   abort_in_var_wait, abort_in_conf_wait, rejected,
                   completed_at_writes>>

\* _websocket_sender of a connected client: queue.get() and send_json.
Consume(s) ==
    /\ Suspended
    /\ s \in subscribers
    /\ consumed[s] < Len(queues[s])
    /\ consumed' = [consumed EXCEPT ![s] = @ + 1]
    /\ UNCHANGED <<inputs, request, teach, registry, status, completed_at, abort_event,
                   subscribers, bus, futures, runner, other_pc, other_calls, ghost>>

\* resolve_confirmation that sets the result True whatever the reply.
resolve_confirmation_AlwaysAllow(slot, futs, allowed) ==
    IF slot # "None" /\ futs[slot] = "pending"
    THEN [futs EXCEPT ![slot] = "true"]
    ELSE futs

\* resolve_confirmation that sets the result of a future that is done already.
resolve_confirmation_Overwrite(slot, futs, allowed) ==
    IF slot # "None" /\ futs[slot] # "none"
    THEN [futs EXCEPT ![slot] = IF allowed THEN "true" ELSE "false"]
    ELSE futs

\* RunState.resolve_confirmation: the futures after the call.
resolve_confirmation(slot, futs, allowed) ==
    IF slot # "None" /\ futs[slot] = "pending"
    THEN [futs EXCEPT ![slot] = IF allowed THEN "true" ELSE "false"]
    ELSE futs

\* _websocket_receiver: confirm_action from a connected client.
ConfirmAction(s, allow) ==
    /\ Suspended
    /\ s \in subscribers
    /\ conf_fut' = resolve_confirmation(confirmation_future, conf_fut, allow)
    /\ gate' = IF confirmation_future = "runner" /\ conf_fut'["runner"] # conf_fut["runner"]
               THEN (IF allow THEN "allowed" ELSE "declined") ELSE gate
    /\ UNCHANGED <<inputs, request, consumed, teach, registry, status, completed_at, abort_event, subscribers, bus,
                   confirmation_future, variables_future, var_fut, var_values,
                   runner, other_pc, other_calls, joined_at, boot, aborts,
                   abort_in_var_wait,
                   abort_in_conf_wait, rejected, completed_at_writes>>

\* RunState.resolve_variables: TRUE iff the call completes the future.
resolve_variables(slot, futs) == slot # "None" /\ futs[slot] = "pending"

\* _websocket_receiver: submit_variables from a connected client; values is the
\* reply, the result of the future.
SubmitVariables(s, values) ==
    /\ Suspended
    /\ s \in subscribers
    /\ IF resolve_variables(variables_future, var_fut)
       THEN /\ var_fut' = [var_fut EXCEPT ![variables_future] = "result"]
            /\ var_values' = values
       ELSE UNCHANGED <<var_fut, var_values>>
    /\ UNCHANGED <<inputs, request, consumed, teach, registry, status, completed_at, abort_event, subscribers, bus,
                   confirmation_future, variables_future, conf_fut,
                   runner, other_pc, other_calls, ghost>>

\* request_abort that fails a variable future whether or not it is done.
abort_variables_Unguarded(slot, futs) ==
    IF slot # "None" THEN [futs EXCEPT ![slot] = "abort"] ELSE futs

\* request_abort that leaves the pending variable future alone.
abort_variables_Untouched(slot, futs) == futs

\* RunState.request_abort: the variable futures after the call.
abort_variables(slot, futs) ==
    IF slot # "None" /\ futs[slot] = "pending"
    THEN [futs EXCEPT ![slot] = "abort"]
    ELSE futs

\* POST /runs/{run_id}/abort, or abort from a connected client: request_abort,
\* called at most `limit` times.
RequestAbortWithin(limit) ==
    /\ Suspended
    /\ registered \/ subscribers # {}
    /\ aborts < limit
    /\ aborts' = aborts + 1
    /\ abort_event' = TRUE
    /\ var_fut' = abort_variables(variables_future, var_fut)
    /\ SetBus(publish(Bus, subscribers, RunnerStatus("abort_requested")))
    /\ abort_in_var_wait' =
            IF abort_in_var_wait = 0 /\ pc = "wait_vars" /\ var_fut["runner"] = "pending"
            THEN Len(published) + 1 ELSE abort_in_var_wait
    /\ abort_in_conf_wait' =
            IF abort_in_conf_wait = 0 /\ pc = "wait_conf" /\ conf_fut["runner"] = "pending"
            THEN Len(published) + 1 ELSE abort_in_conf_wait
    /\ UNCHANGED <<inputs, request, consumed, teach, registry, status, completed_at, subscribers, confirmation_future,
                   variables_future, conf_fut, var_values, runner, other_pc,
                   other_calls, joined_at, boot, gate, rejected, completed_at_writes>>

RequestAbort == RequestAbortWithin(MaxAborts)

\* request_abort, called once more than that.
RequestAbortAgain == RequestAbortWithin(MaxAborts + 1)

\* ------------------------------------------------------------ RunRegistry
\* A sweeper that removes a run as soon as its age reaches the TTL.
Expired_AtTTL(completed, t) ==
    completed # <<>> /\ t - completed[1] >= COMPLETED_RUN_TTL

\* _cleanup_old_runs removes a run with this completed_at at time t.
Expired(completed, t) ==
    completed # <<>> /\ t - completed[1] > COMPLETED_RUN_TTL

\* The clock advances by one sweep interval.
Tick ==
    /\ now < MaxTicks * SweepInterval
    /\ now' = now + SweepInterval
    /\ UNCHANGED <<inputs, request, consumed, teach, registered, next_sweep, status, completed_at,
                   abort_event, subscribers,
                   bus, futures, runner, other_pc, other_calls, ghost>>

\* RunRegistry._cleanup_loop woke up: _cleanup_old_runs.
CleanupOldRuns ==
    /\ Suspended
    /\ registered
    /\ registered' = ~Expired(completed_at, now)
    /\ UNCHANGED <<inputs, request, consumed, teach, now, next_sweep, status, completed_at, abort_event,
                   subscribers,
                   bus, futures, runner, other_pc, other_calls, ghost>>

\* The clock advances by a quantum, up to the time the sweeper's sleep is over.
ClockTick ==
    /\ now < MaxTicks * SweepInterval
    /\ now + Quantum <= next_sweep
    /\ now' = now + Quantum
    /\ UNCHANGED <<inputs, request, consumed, teach, registered, next_sweep, status, completed_at,
                   abort_event, subscribers,
                   bus, futures, runner, other_pc, other_calls, ghost>>

\* A loop that sleeps two intervals.
NextWake_Slow(t) == t + 2 * SweepInterval

\* `await asyncio.sleep(60)` of the next iteration, begun at time t.
NextWake(t) == t + SweepInterval

\* One iteration of RunRegistry._cleanup_loop: the sleep is over,
\* _cleanup_old_runs, and the next sleep begins.
CleanupLoop ==
    /\ Suspended
    /\ now = next_sweep
    /\ registered' = (registered /\ ~Expired(completed_at, now))
    /\ next_sweep' = NextWake(now)
    /\ UNCHANGED <<inputs, request, consumed, teach, now, status, completed_at, abort_event,
                   subscribers,
                   bus, futures, runner, other_pc, other_calls, ghost>>

\* POST /runs/{run_id}/capture: 404 for an unknown run, a refusal while no frame
\* was published, else the latest frame (its position in `published`).
runs_capture ==
    IF ~registered THEN [status_code |-> 404, frame |-> 0]
    ELSE [status_code |-> 200, frame |-> latest_frame]

\* ------------------------------------- a second client of the handshakes
\* RunState's handshakes called by a coroutine other than the runner task (the
\* runner itself calls them one at a time), while the runner is in a handshake.
OtherKept ==
    UNCHANGED <<inputs, request, consumed, teach, registry, status, completed_at, abort_event, subscribers,
                joined_at, boot, aborts, abort_in_var_wait, abort_in_conf_wait,
                completed_at_writes>>

OtherUnchanged == OtherKept /\ UNCHANGED var_values

OtherRequestConfirmation ==
    /\ Suspended
    /\ other_pc = "idle"
    /\ pc \in HandshakeAwaits
    /\ other_calls < MaxOtherCalls
    /\ other_calls' = other_calls + 1
    /\ LET q == request_confirmation(Frame0, "other", 0) IN
       /\ Commit([q EXCEPT !.raised = FALSE])
       /\ other_pc' = IF q.raised THEN "idle" ELSE "wait_conf"
    /\ OtherUnchanged

OtherConfirmationReceived ==
    /\ Suspended
    /\ other_pc = "wait_conf"
    /\ conf_fut["other"] \in {"true", "false"}
    /\ Commit(confirmation_done(Frame0, "other"))
    /\ other_pc' = "idle"
    /\ UNCHANGED other_calls
    /\ OtherUnchanged

OtherRequestVariables ==
    /\ Suspended
    /\ other_pc = "idle"
    /\ pc \in HandshakeAwaits
    /\ other_calls < MaxOtherCalls
    /\ other_calls' = other_calls + 1
    /\ LET q == request_variables(Frame0, "other") IN
       /\ Commit([q EXCEPT !.raised = FALSE])
       /\ other_pc' = IF q.raised THEN "idle" ELSE "wait_vars"
    /\ OtherUnchanged

OtherVariablesReceived ==
    /\ Suspended
    /\ other_pc = "wait_vars"
    /\ var_fut["other"] \in {"result", "abort"}
    /\ Commit(variables_done(Frame0, "other"))
    /\ var_values' = NoVars
    /\ other_pc' = "idle"
    /\ UNCHANGED other_calls
    /\ OtherKept

\* ------------------------------------------------------------ specification
\* The plan is handed to PlanRunner.run as it is: no request is modelled.
NoRequest ==
    /\ placeholders = {} /\ plan_vars = NoVars /\ provided_vars = NoVars
    /\ response = NoResponse

\* The state when runs_start returns: the RunState is in the registry, the
\* runner task is created and has not run yet, `started` has been published.
Started ==
    /\ NoRequest
    /\ registered = TRUE /\ now = 0 /\ next_sweep = SweepInterval
    /\ status = "pending" /\ completed_at = <<>> /\ abort_event = FALSE
    /\ subscribers = {} /\ queues = [s \in Subs |-> <<>>]
    /\ consumed = [s \in Subs |-> 0]
    /\ TeachIdle
    /\ UsualPage
    /\ NoPlan
    /\ latest_frame = 0 /\ latest_status = 1
    /\ published = <<RunnerStatus("started")>>
    /\ confirmation_future = "None" /\ variables_future = "None"
    /\ conf_fut = [c \in Callers |-> "none"] /\ var_fut = [c \in Callers |-> "none"]
    /\ var_values = NoVars
    /\ pc = "launch" /\ step = 0 /\ turn = 0 /\ actions = <<>>
    /\ action_failed = FALSE /\ outcome = "none" /\ error = ""
    /\ require_visual_match = FALSE /\ history = <<>>
    /\ opened = <<>> /\ closed = <<>>
    /\ other_pc = "idle" /\ other_calls = 0
    /\ joined_at = [s \in Subs |-> 0] /\ boot = [s \in Subs |-> 0]
    /\ gate = "none" /\ aborts = 0
    /\ abort_in_var_wait = 0 /\ abort_in_conf_wait = 0
    /\ rejected = 0 /\ completed_at_writes = 0

\* A run of a plan of up to MaxSteps steps, watched by one client.
Init ==
    /\ nsteps \in 0..MaxSteps
    /\ \E run \in Runs : start_url = run.start_url /\ missing = run.missing
    /\ instructions = TRUE
    /\ checkpoints = FALSE
    /\ stored = FALSE
    /\ clients = {"s1"}
    /\ Started

RunnerNext ==
    \/ BrowserReady \/ StartUrlLoaded \/ InitialFrame \/ VariablesReceived
    \/ ProposeActions \/ ConfirmationReceived \/ ApplyAction \/ ActionFrame
    \/ FinalFrame \/ BrowserCrash \/ CloseBrowser \/ MarkCompleted

OperatorNext ==
    \/ \E s \in Subs, allow \in BOOLEAN : ConfirmAction(s, allow)
    \/ \E s \in Subs, values \in Replies : SubmitVariables(s, values)
    \/ RequestAbort

ClientNext ==
    \/ \E s \in Subs : AddSubscriber(s)
    \/ \E s \in Subs : RemoveSubscriber(s)
    \/ OperatorNext

Next == RunnerNext \/ ClientNext

Spec == Init /\ [][Next]_vars

\* A run whose task may be cancelled.
SpecCancel == Init /\ [][Next \/ CancelTask]_vars

\* A one-step run watched by two clients.
InitFanout ==
    /\ nsteps = 1
    /\ \E run \in Runs : start_url = run.start_url /\ missing = run.missing
    /\ instructions = TRUE
    /\ checkpoints = FALSE
    /\ stored = FALSE
    /\ clients = Subs
    /\ Started

SpecFanout == InitFanout /\ [][Next]_vars

\* A run whose RunState has a second client of the handshakes.
OtherNext ==
    \/ OtherRequestConfirmation \/ OtherConfirmationReceived
    \/ OtherRequestVariables \/ OtherVariablesReceived

NextHandshake == RunnerNext \/ OperatorNext \/ OtherNext

\* The RunState and the runner task of a run that client s1 is connected to
\* since the run was started.
ConnectedRun ==
    /\ NoRequest
    /\ \E run \in Runs : start_url = run.start_url /\ missing = run.missing
    /\ instructions = TRUE
    /\ clients = {"s1"}
    /\ registered = TRUE /\ now = 0 /\ next_sweep = SweepInterval
    /\ status = "pending" /\ completed_at = <<>> /\ abort_event = FALSE
    /\ subscribers = {"s1"}
    /\ queues = [s \in Subs |-> IF s = "s1" THEN <<1>> ELSE <<>>]
    /\ consumed = [s \in Subs |-> 0]
    /\ latest_frame = 0 /\ latest_status = 1
    /\ published = <<RunnerStatus("started")>>
    /\ confirmation_future = "None" /\ variables_future = "None"
    /\ conf_fut = [c \in Callers |-> "none"] /\ var_fut = [c \in Callers |-> "none"]
    /\ var_values = NoVars
    /\ pc = "launch" /\ step = 0 /\ turn = 0 /\ actions = <<>>
    /\ action_failed = FALSE /\ outcome = "none" /\ error = ""
    /\ require_visual_match = FALSE /\ history = <<>>
    /\ opened = <<>> /\ closed = <<>>
    /\ other_pc = "idle" /\ other_calls = 0
    /\ joined_at = [s \in Subs |-> IF s = "s1" THEN 1 ELSE 0]
    /\ boot = [s \in Subs |-> IF s = "s1" THEN 1 ELSE 0]
    /\ gate = "none" /\ aborts = 0
    /\ abort_in_var_wait = 0 /\ abort_in_conf_wait = 0
    /\ rejected = 0 /\ completed_at_writes = 0

\* A run given callbacks that supply checkpoints for the steps or callbacks that
\* supply none.
InitCheckpoints ==
    /\ nsteps \in 1..MaxSteps
    /\ checkpoints \in BOOLEAN
    /\ stored = FALSE
    /\ ConnectedRun
    /\ TeachIdle
    /\ UsualPage
    /\ NoPlan

\* A run of a plan of more than one step.
InitPlan ==
    /\ nsteps = MaxSteps + 1
    /\ checkpoints = FALSE
    /\ stored = FALSE
    /\ ConnectedRun
    /\ TeachIdle
    /\ UsualPage
    /\ NoPlan

\* A run started by POST /runs/start (RunnerDispatcher supplies no checkpoints)
\* with client s1 connected since the run was started.
InitConnected == InitCheckpoints /\ checkpoints = FALSE

\* PlanRunner.run with or without checkpoints, and its operator.
SpecCheckpoints == InitCheckpoints /\ [][RunnerNext \/ OperatorNext]_vars

\* The run of a plan of several steps, and its operator.
SpecPlan == InitPlan /\ [][RunnerNext \/ OperatorNext]_vars

\* ------------------------------------------------------- POST /runs/start
\* _coerce_plan_variable: None and blank strings give None, a string is
\* stripped, a number is kept.
coerce_plan_variable(value) ==
    IF value \in {"null", "blank"} THEN "null" ELSE value

\* sanitized_vars of runs_start: the request's variables whose coerced value is
\* not None.
SanitizedVars(provided) ==
    [n \in VarNames |->
        IF provided[n] = "absent" \/ coerce_plan_variable(provided[n]) = "null"
        THEN "absent" ELSE coerce_plan_variable(provided[n])]

\* normalize_plan_variables: a placeholder that is no key of plan.vars gets "".
normalize_plan_variables(vars_, names) ==
    [n \in VarNames |-> IF n \in names /\ vars_[n] = "absent" THEN "blank" ELSE vars_[n]]

\* merged_vars that keeps the plan's own value of a placeholder.
MergedVars_KeepDefaults(vars_, sanitized, names) ==
    [n \in VarNames |-> IF sanitized[n] # "absent" THEN sanitized[n] ELSE vars_[n]]

\* merged_vars of runs_start: a placeholder gets the request's value or "",
\* any other name the request's value or else the plan's.
MergedVars(vars_, sanitized, names) ==
    [n \in VarNames |->
        IF n \in names
        THEN (IF sanitized[n] = "absent" THEN "blank" ELSE sanitized[n])
        ELSE IF sanitized[n] # "absent" THEN sanitized[n] ELSE vars_[n]]

\* PlanRunner._missing_plan_variables: the placeholders that are no key, None
\* or a blank string.
missing_plan_variables(vars_, names) ==
    {n \in names : vars_[n] \in {"absent", "null", "blank"}}

\* _identify_missing_variables: the same names, as a sorted list.
identify_missing_variables(vars_map, names) ==
    Sorted({n \in names : vars_map[n] \in {"absent", "null", "blank"}})

\* runs_start: the request is validated; HTTP 400 if a placeholder has no
\* value, else the RunState is registered, the runner task is created and
\* runner_status started is published.
RunsStart ==
    /\ pc = "request" /\ response = NoResponse
    /\ LET runtime_vars == normalize_plan_variables(plan_vars, placeholders)
           merged_vars == MergedVars(runtime_vars, SanitizedVars(provided_vars),
                                     placeholders)
           missing_ == identify_missing_variables(merged_vars, placeholders)
       IN
       IF placeholders # {} /\ missing_ # <<>>
       THEN /\ response' = [status_code |-> 400, detail |-> missing_]
            /\ UNCHANGED <<missing, registered, pc, published, latest_status>>
       ELSE /\ response' = [status_code |-> 200, detail |-> <<>>]
            /\ registered' = TRUE
            /\ missing' = missing_plan_variables(
                              normalize_plan_variables(merged_vars, placeholders),
                              placeholders)
            /\ pc' = "launch"
            /\ published' = Append(published, RunnerStatus("started"))
            /\ latest_status' = Len(published')
    /\ UNCHANGED <<nsteps, start_url, embedded, instructions, checkpoints, stored, clients, consumed, teach,
                   planning,
                   placeholders, plan_vars, provided_vars, now, next_sweep,
                   status, completed_at, abort_event, subscribers, queues,
                   latest_frame, futures, step, turn, actions, action_failed,
                   outcome, error, require_visual_match, history, opened, closed,
                   other_pc, other_calls, ghost>>

\* What _get_step_checkpoints would get from callbacks that hand out the
\* checkpoints stored with the plan.
get_step_checkpoints_Stored(stored_) == stored_

\* What _get_step_checkpoints gets from a RunnerDispatcher: the class defines
\* no get_checkpoints and knows no stored checkpoints; the stub it inherits
\* from RunnerCallbacks returns None, which is no list, so the result is [].
get_step_checkpoints(stored_) == FALSE

\* A stored plan and a request to start it; no run exists yet.
InitStart ==
    /\ nsteps \in 1..MaxSteps
    /\ start_url = TRUE /\ instructions = TRUE /\ stored \in BOOLEAN
    /\ checkpoints = get_step_checkpoints(stored)
    /\ missing = {} /\ clients = {"s1"}
    /\ placeholders \in SUBSET VarNames
    /\ plan_vars \in [VarNames -> {"absent", "text"}]
    /\ provided_vars \in [VarNames -> Values]
    /\ response = NoResponse
    /\ registered = FALSE /\ now = 0 /\ next_sweep = SweepInterval
    /\ status = "pending" /\ completed_at = <<>> /\ abort_event = FALSE
    /\ subscribers = {} /\ queues = [s \in Subs |-> <<>>]
    /\ consumed = [s \in Subs |-> 0]
    /\ TeachIdle
    /\ UsualPage
    /\ NoPlan
    /\ latest_frame = 0 /\ latest_status = 0
    /\ published = <<>>
    /\ confirmation_future = "None" /\ variables_future = "None"
    /\ conf_fut = [c \in Callers |-> "none"] /\ var_fut = [c \in Callers |-> "none"]
    /\ var_values = NoVars
    /\ pc = "request" /\ step = 0 /\ turn = 0 /\ actions = <<>>
    /\ action_failed = FALSE /\ outcome = "none" /\ error = ""
    /\ require_visual_match = FALSE /\ history = <<>>
    /\ opened = <<>> /\ closed = <<>>
    /\ other_pc = "idle" /\ other_calls = 0
    /\ joined_at = [s \in Subs |-> 0] /\ boot = [s \in Subs |-> 0]
    /\ gate = "none" /\ aborts = 0
    /\ abort_in_var_wait = 0 /\ abort_in_conf_wait = 0
    /\ rejected = 0 /\ completed_at_writes = 0

\* The runner task of a run whose plan has a value for every placeholder: its
\* steps other than the resumption of request_variables.
RunnerUnprompted ==
    \/ BrowserReady \/ StartUrlLoaded \/ InitialFrame
    \/ ProposeActions \/ ConfirmationReceived \/ ApplyAction \/ ActionFrame
    \/ FinalFrame \/ BrowserCrash \/ CloseBrowser \/ MarkCompleted

\* POST /runs/start, the run it starts, and a client that connects and answers
\* the safety prompts.
NextStart ==
    \/ RunsStart
    \/ RunnerUnprompted
    \/ \E s \in Subs : AddSubscriber(s)
    \/ \E s \in Subs, allow \in BOOLEAN : ConfirmAction(s, allow)

SpecStart == InitStart /\ [][NextStart]_vars

\* A one-step run whose start page is any of the pages.
InitEmbedded ==
    /\ NoPlan
    /\ nsteps = 1
    /\ checkpoints = FALSE
    /\ stored = FALSE
    /\ ConnectedRun
    /\ TeachIdle
    /\ start_url = TRUE /\ missing = {}
    /\ embedded \in Pages

SpecEmbedded == InitEmbedded /\ [][RunnerUnprompted \/ OperatorNext]_vars

\* The clients whose sender task is scheduled; the sender of the other client
\* is stalled on a socket that does not drain.
Readers == {"s1"}

\* A one-step run of a plan without placeholders, watched by a client that reads
\* at its own pace and a client that never reads.
InitConsumers ==
    /\ InitFanout
    /\ start_url = TRUE /\ missing = {}

NextConsumers ==
    \/ RunnerUnprompted
    \/ \E s \in Subs : AddSubscriber(s)
    \/ \E s \in Subs : RemoveSubscriber(s)
    \/ \E s \in Readers : Consume(s)
    \/ \E s \in Subs, allow \in BOOLEAN : ConfirmAction(s, allow)

SpecConsumers == InitConsumers /\ [][NextConsumers]_vars

\* A run and an operator who asks for the abort more than once.
NextAbort ==
    \/ RunnerNext
    \/ \E s \in Subs, allow \in BOOLEAN : ConfirmAction(s, allow)
    \/ \E s \in Subs, values \in Replies : SubmitVariables(s, values)
    \/ RequestAbortAgain

SpecAbort == InitConnected /\ [][NextAbort]_vars

\* A one-step run whose RunState has a second client of the handshakes.
InitHandshake == InitConnected /\ nsteps = 1

SpecHandshake == InitHandshake /\ [][NextHandshake]_vars

\* A run and its operator.  The event loop runs the runner task
\* whenever it can run, and the browser and the agent answer; nothing obliges
\* the operator to act.
NextOperator == RunnerNext \/ OperatorNext

FairSpec == InitConnected /\ [][NextOperator]_vars /\ WF_vars(RunnerNext)

\* A run, its operator, the clock and the registry's sweeper.
NextSweeper == NextOperator \/ Tick \/ CleanupOldRuns

\* A one-step run, its operator (who may disconnect), the clock, and the
\* sweeper's loop waking up when its sleep is over.
NextRetention ==
    \/ NextOperator
    \/ \E s \in Subs : RemoveSubscriber(s)
    \/ ClockTick
    \/ CleanupLoop

SpecRetention == InitHandshake /\ [][NextRetention]_vars

SpecSweeper == InitConnected /\ [][NextSweeper]_vars

\* ------------------------------------------------------------- properties
\* Positions in `published` of the messages of a type, and of the terminal ones.
OfType(t) == {i \in DOMAIN published : published[i].type = t}
TerminalPositions == {i \in DOMAIN published : IsTerminal(published[i])}
Last(S) == IF S = {} THEN 0 ELSE CHOOSE i \in S : \A j \in S : j <= i

\* _runner_task has passed its try statement.
RunEnded == pc \in {"finally", "done"}

\* Terminal messages a subscriber's queue was given.
TerminalsIn(q) == {k \in DOMAIN q : IsTerminal(published[q[k]])}

\* C1: the runner task publishes exactly one terminal runner_status (completed,
\* aborted or failed): none before plan execution is over, one from then on, and
\* it is completed after a normal return, aborted after AbortRequested, and
\* failed with the error's text after RunnerError or any other exception.
C1_OneTerminalStatus ==
    /\ Cardinality(TerminalPositions) = (IF RunEnded THEN 1 ELSE 0)
    /\ \A i \in TerminalPositions :
        /\ published[i].message = status
        /\ outcome = "return" => published[i] = RunnerStatus("completed")
        /\ outcome = "abort" => published[i] = RunnerStatus("aborted")
        /\ outcome \in {"runner_error", "exception"} =>
                published[i] = FailedStatus(error)

C1_Witness ==
    /\ pc = "done" /\ outcome = "abort"
    /\ Cardinality(TerminalPositions) = 1

\* C2: once the run is over, every subscriber has been given exactly one
\* terminal runner_status, whether it subscribed before or after the end of the
\* run and whether or not request_abort was called after the end.
C2_EverySubscriberOneTerminal ==
    pc = "done" => \A s \in subscribers : Cardinality(TerminalsIn(queues[s])) = 1

\* C3: behind its bootstrap messages a registered queue holds exactly the
\* messages published since it was registered, each once and in the order of
\* the publish calls (so of two messages published while the queue was
\* registered, the earlier one comes first in the queue).
C3_SubscriberOrdering ==
    \A s \in subscribers :
        LET q == queues[s] IN
        /\ Len(q) = boot[s] + Len(published) - joined_at[s]
        /\ \A k \in 1..(Len(q) - boot[s]) : q[boot[s] + k] = joined_at[s] + k

C3_Witness ==
    /\ subscribers = Subs
    /\ joined_at["s1"] < joined_at["s2"]
    /\ Len(queues["s2"]) - boot["s2"] >= 3
    /\ \E k \in DOMAIN queues["s2"] :
        /\ k > boot["s2"] /\ k < Len(queues["s2"])
        /\ published[queues["s2"][k]] = RunnerStatus("abort_requested")

\* Subscribers registered after a frame was published.
JoinedAfterFrame(s) ==
    s \in subscribers /\ \E i \in OfType("runner_frame") : i <= joined_at[s]

\* C4 as stated: a subscriber that subscribes after a frame was published is
\* given a runner_frame before any status-only message.
C4_FrameBeforeAnyStatus ==
    \A s \in Subs : JoinedAfterFrame(s) =>
        /\ queues[s] # <<>>
        /\ published[queues[s][1]].type = "runner_frame"

\* C4 amended: a subscriber that subscribes after a frame was published is
\* given first the most recent status-only message and then the most recent
\* frame, both as of its subscription, and only then messages published after
\* it subscribed: the frame comes before every later status-only message.
C4_BootstrapSnapshot ==
    \A s \in Subs : JoinedAfterFrame(s) =>
        LET q == queues[s]
            before == 1..joined_at[s]
        IN
        /\ Len(q) >= 2
        /\ q[1] = Last((DOMAIN published \ OfType("runner_frame")) \cap before)
        /\ q[2] = Last(OfType("runner_frame") \cap before)
        /\ \A k \in 3..Len(q) : q[k] > joined_at[s]

C4_Witness ==
    /\ JoinedAfterFrame("s1")
    /\ Cardinality({i \in OfType("runner_frame") : i <= joined_at["s1"]}) >= 2
    /\ Len(queues["s1"]) >= 3
    /\ published[queues["s1"][3]].type = "runner_status"

\* Callers whose confirmation (variable) request is outstanding.
AwaitingConfirmation == {c \in Callers : conf_fut[c] # "none"}
AwaitingVariables == {c \in Callers : var_fut[c] # "none"}

\* C5: at most one confirmation and at most one variable request is
\* outstanding, and it is the one the slot names (so a reply resolves it); a
\* request made while one is pending fails at once, publishes no safety_prompt
\* and no variable_prompt, and leaves the slots and the futures as they were.
C5_SingleSlotHandshakes ==
    /\ [](/\ Cardinality(AwaitingConfirmation) <= 1
          /\ Cardinality(AwaitingVariables) <= 1
          /\ \A c \in AwaitingConfirmation : confirmation_future = c
          /\ \A c \in AwaitingVariables : variables_future = c)
    /\ [][rejected' # rejected =>
            /\ Cardinality(OfType("safety_prompt")') = Cardinality(OfType("safety_prompt"))
            /\ Cardinality(OfType("variable_prompt")') = Cardinality(OfType("variable_prompt"))
            /\ UNCHANGED <<confirmation_future, variables_future, conf_fut, var_fut>>
            /\ \/ other_calls' # other_calls /\ other_pc' = "idle" /\ pc' = pc
               \/ other_calls' = other_calls /\ pc' = "closing"]_vars

C5_Witness ==
    /\ rejected = 1 /\ other_calls = 1 /\ other_pc = "idle"
    /\ missing = {} /\ pc = "wait_conf" /\ confirmation_future = "runner"
    /\ conf_fut["runner"] = "pending"
    /\ Cardinality(OfType("safety_prompt")) = 1

\* The action at the head of the decision requires confirmation.
NeedsConfirmation == actions # <<>> /\ Head(actions)

\* C6: an action that requires confirmation is applied only after a
\* safety_prompt for it was published (after every earlier action) and an
\* operator allowed it after that prompt; once the operator declined, no action
\* is applied any more, and the run ends failed with the error "Action declined
\* by operator".
C6_ConfirmationGating ==
    /\ (pc \in {"apply", "action_frame"} /\ NeedsConfirmation) => gate = "allowed"
    /\ (pc = "apply" /\ NeedsConfirmation) =>
            /\ Last(OfType("safety_prompt")) > Last(OfType("action_executed"))
            /\ published[Last(OfType("safety_prompt"))].stepId = step
    /\ gate = "declined" =>
            /\ pc \in {"wait_conf", "closing", "finally", "done"}
            /\ pc # "wait_conf" =>
                    outcome = "runner_error" /\ error = "Action declined by operator"
            /\ RunEnded =>
                    /\ status = "failed"
                    /\ \E i \in TerminalPositions :
                            published[i] = FailedStatus("Action declined by operator")

C6_Witness ==
    /\ pc = "action_frame" /\ NeedsConfirmation /\ gate = "allowed"
    /\ published[Len(published)] = Event("action_executed", step)

\* The run has no terminal status yet.
NotTerminal == status \notin TerminalMessages

\* The runner waits for the reply to a safety_prompt.
AwaitingReply == pc = "wait_conf" /\ conf_fut["runner"] = "pending"

\* C7 as stated: once request_abort was called on a run that is not terminal,
\* the run reaches a terminal status, whatever the operators do.
C7_AbortReachesTerminal == (abort_event /\ NotTerminal) ~> ~NotTerminal

\* C7 amended: once request_abort was called on a run that is not terminal, the
\* runner starts no further turn and no further step, and the run reaches a
\* terminal status unless the runner is left waiting for the reply to a
\* safety_prompt, which request_abort does not resolve.
C7_AbortLiveness ==
    /\ (abort_event /\ NotTerminal) ~> (~NotTerminal \/ AwaitingReply)
    /\ [][abort_event =>
            /\ OfType("step_started")' = OfType("step_started")
            /\ pc' = "turn" => pc = "turn"]_vars

C7_Witness ==
    /\ abort_event /\ status = "aborted" /\ pc = "done"
    /\ step = 1 /\ turn = 2
    /\ Last(OfType("action_executed")) > Last(OfType("runner_status") \ TerminalPositions)

\* q holds position a and, behind it, position t.
GivenInOrder(q, a, t) ==
    \E j, k \in DOMAIN q : j < k /\ q[j] = a /\ q[k] = t

\* C8: when request_abort is called while the runner waits on its pending
\* variable request, the future is completed with AbortRequested, the run ends
\* with status aborted, a subscriber registered at the abort is given
\* abort_requested and then the terminal aborted, and neither variables_applied
\* nor step_started is published.
C8_AbortDuringVariableWait ==
    abort_in_var_wait > 0 =>
        /\ published[abort_in_var_wait] = RunnerStatus("abort_requested")
        /\ pc \in {"wait_vars", "closing", "finally", "done"}
        /\ pc = "wait_vars" => var_fut["runner"] = "abort"
        /\ pc # "wait_vars" => outcome = "abort"
        /\ OfType("variables_applied") = {} /\ OfType("step_started") = {}
        /\ RunEnded =>
            /\ status = "aborted"
            /\ \E t \in TerminalPositions :
                /\ published[t] = RunnerStatus("aborted")
                /\ t > abort_in_var_wait
                /\ \A s \in subscribers : joined_at[s] < abort_in_var_wait =>
                        GivenInOrder(queues[s], abort_in_var_wait, t)

C8_Witness ==
    /\ abort_in_var_wait > 0 /\ pc = "done" /\ status = "aborted"
    /\ "s1" \in subscribers /\ joined_at["s1"] < abort_in_var_wait

\* C9 as stated: when request_abort is called while the runner waits on its
\* pending confirmation, the run ends with status aborted.
C9_EndsAborted ==
    (abort_in_conf_wait > 0 /\ pc = "done") => status = "aborted"

\* The step of the safety_prompt that was pending at position a of `published`.
PromptStep(a) == published[Last({i \in OfType("safety_prompt") : i < a})].stepId

\* C9 amended: request_abort leaves a pending confirmation pending, and the
\* runner waits until an operator replies; after the reply the runner starts no
\* further turn and no further step, and the run ends aborted, or completed
\* when the confirmed turn completes the last step, or failed when the operator
\* declined, the turns of the step are used up or an action crashed.
C9_AbortDuringConfirmationWait ==
    abort_in_conf_wait > 0 =>
        /\ published[abort_in_conf_wait] = RunnerStatus("abort_requested")
        /\ gate = "prompted" => AwaitingReply
        /\ \A i \in DOMAIN published : i > abort_in_conf_wait =>
                /\ published[i].type # "step_started"
                /\ published[i].message # "ComputerUse prompt"
        /\ pc = "done" =>
            \/ status = "aborted"
            \/ /\ status = "completed"
               /\ PromptStep(abort_in_conf_wait) = nsteps
            \/ /\ status = "failed"
               /\ error \in {"Action declined by operator", "Exceeded max turns",
                            CrashError("apply")}

C9_Witness ==
    /\ abort_in_conf_wait > 0 /\ pc = "done" /\ status = "aborted"
    /\ Last(OfType("action_executed")) > abort_in_conf_wait

\* C10: completed_at is set if and only if the status is terminal.
C10_CompletedAtIffTerminal ==
    completed_at # <<>> <=> status \in TerminalMessages

TurnsOf(st) == {i \in DOMAIN published : published[i] = Console("ComputerUse prompt", st)}

InTurn == pc \in {"turn", "wait_conf", "apply", "action_frame", "final_frame"}

\* C12: no step gets more than MAX_TURNS_PER_STEP turns; when the turns of a
\* step are used up the run fails with the error "Exceeded max turns" for that
\* step, and step_completed is not published for it.
C12_TurnBound ==
    /\ \A st \in 1..nsteps : Cardinality(TurnsOf(st)) <= MAX_TURNS_PER_STEP
    /\ InTurn => turn \in 1..MAX_TURNS_PER_STEP
    /\ error = "Exceeded max turns" =>
        /\ outcome = "runner_error"
        /\ Cardinality(TurnsOf(step)) = MAX_TURNS_PER_STEP
        /\ Event("step_completed", step) \notin {published[i] : i \in DOMAIN published}
        /\ RunEnded =>
            /\ status = "failed"
            /\ published[Last(TerminalPositions)] = FailedStatus("Exceeded max turns")

C12_Witness ==
    /\ pc = "done" /\ error = "Exceeded max turns" /\ status = "failed"
    /\ Cardinality(TurnsOf(1)) = MAX_TURNS_PER_STEP

\* The messages published so far.
Published == {published[i] : i \in DOMAIN published}

\* C13: when an action fails at the browser the runner publishes one console
\* message of role Runner and no action_executed, appends an error to history,
\* skips the remaining actions of the turn and goes on to the end of the turn;
\* the failure of an action never ends the run.
C13_ActionFailureRecovered ==
    /\ (pc = "final_frame" /\ action_failed) =>
            /\ published[Len(published)] = Console("Runner", step)
            /\ history # <<>> /\ history[Len(history)] = "error"
    /\ ~(outcome = "exception" /\ error = CrashError("apply"))

C15_CheckpointGatedStep ==
    (checkpoints /\ pc = "done" /\ Event("step_started", 1) \in Published) =>
        \/ /\ Event("checkpoint_matched", 1) \in Published
           /\ Event("step_completed", 1) \in Published
        \/ status = "aborted"
        \/ /\ status = "failed"
           /\ error \in {"Exceeded max turns", "Action declined by operator",
                        AgentDisabled, NoCandidates, NoSupportedActions, CrashError("turn"), CrashError("apply")}

\* Where a message was published.
Pos(m) == {i \in DOMAIN published : published[i] = m}

\* The messages of the turns of a step.
StepMessages == {"console", "safety_prompt", "action_executed", "runner_frame",
                 "checkpoint_evaluated", "checkpoint_matched"}

\* C16: steps are processed in plan order; step_started of a step comes once,
\* after step_completed of the step before it; the messages of the step's turns
\* come after its step_started and before its step_completed, which comes once
\* and after at least one frame of the step; run_completed comes after
\* step_completed of the last step and before runner_status completed.
C16_EventOrder ==
    /\ \A i \in OfType("step_started") \cup OfType("step_completed") :
            published[i].stepId \in 1..nsteps
    /\ \A st \in 1..nsteps :
        LET S == Pos(Event("step_started", st))
            D == Pos(Event("step_completed", st))
        IN
        /\ Cardinality(S) <= 1 /\ Cardinality(D) <= 1
        /\ D # {} =>
            /\ S # {} /\ Last(S) < Last(D)
            /\ \E k \in Pos(Frame(st)) : Last(S) < k /\ k < Last(D)
        /\ (S # {} /\ st > 1) =>
            /\ Pos(Event("step_completed", st - 1)) # {}
            /\ Last(Pos(Event("step_completed", st - 1))) < Last(S)
        /\ \A k \in DOMAIN published :
            (published[k].type \in StepMessages /\ published[k].stepId = st) =>
                /\ S # {} /\ Last(S) < k
                /\ D # {} => k < Last(D)
    /\ Cardinality(OfType("run_completed")) <= 1
    /\ \A i \in OfType("run_completed") :
        /\ Pos(Event("step_completed", nsteps)) # {}
        /\ Last(Pos(Event("step_completed", nsteps))) < i
    /\ \A j \in Pos(RunnerStatus("completed")) :
        /\ OfType("run_completed") # {}
        /\ Last(OfType("run_completed")) < j

C16_Witness ==
    /\ nsteps > 1 /\ pc = "done" /\ status = "completed"
    /\ \A st \in 1..nsteps : Pos(Event("step_completed", st)) # {}

\* The placeholders for which the request supplies no non-empty value.
Unsupplied ==
    {n \in placeholders : provided_vars[n] \in {"absent", "null", "blank"}}

\* The place of a name in sorted order.
Rank(n) == CHOOSE i \in DOMAIN NameOrder : NameOrder[i] = n

Rejected == response.status_code = 400

\* C17: POST /runs/start with no variables for a plan that has a placeholder
\* without a value starts the run (whose runner then publishes variable_prompt).
C17_VariablePromptOnStart ==
    (/\ response # NoResponse
     /\ provided_vars = NoVars
     /\ \E n \in placeholders : plan_vars[n] = "absent") =>
        /\ response.status_code = 200
        /\ registered

\* C18: POST /runs/start fails with HTTP 400 exactly when the request supplies no
\* non-empty value for some placeholder; the detail names exactly those
\* placeholders, in sorted order; after the failure no RunState is registered,
\* no runner task exists and no message is published.
C18_StartRejected ==
    /\ response # NoResponse => (Rejected <=> Unsupplied # {})
    /\ Rejected =>
        /\ {response.detail[i] : i \in DOMAIN response.detail} = Unsupplied
        /\ \A i, j \in DOMAIN response.detail :
                i < j => Rank(response.detail[i]) < Rank(response.detail[j])
        /\ ~registered
        /\ pc = "request"
        /\ published = <<>> /\ latest_status = 0 /\ latest_frame = 0

C18_Witness ==
    /\ Rejected
    /\ Len(response.detail) = 2
    /\ \E n \in Unsupplied : plan_vars[n] = "text"

\* The reply in the variable future lacks a requested name or gives it None or
\* a blank string.
ReplyIncomplete == \E n \in missing : var_values[n] \in {"absent", "null", "blank"}

\* The runner resumes from request_variables with the operator's reply, no abort
\* being requested.
ReplyProcessed ==
    /\ pc = "wait_vars" /\ pc' # "wait_vars"
    /\ var_fut["runner"] = "result" /\ ~abort_event

\* C19: when the runner processes a reply that lacks a requested name or gives
\* it a null or blank value, the run fails with 'Missing values for variables'
\* and publishes neither variables_applied nor step_started; when the reply
\* covers every requested name, variables_applied with the names of the prompt
\* is published, and it precedes the first step_started.
C19_VariableHandshakeOutcome ==
    /\ [][ReplyProcessed =>
            IF ReplyIncomplete
            THEN /\ outcome' = "runner_error"
                 /\ error' = "Missing values for variables"
                 /\ pc' = "closing"
                 /\ published' = published
            ELSE /\ Len(published') > Len(published)
                 /\ published'[Len(published) + 1] =
                        VarsMsg("variables_applied",
                                published[Last(OfType("variable_prompt"))].vars)
                 /\ {published[Last(OfType("variable_prompt"))].vars[i] :
                        i \in 1..Len(published[Last(OfType("variable_prompt"))].vars)}
                      = missing
                 /\ nsteps >= 1 => published'[Len(published) + 2] = Event("step_started", 1)
          ]_vars
    /\ [](error = "Missing values for variables" =>
            /\ OfType("variables_applied") = {} /\ OfType("step_started") = {}
            /\ RunEnded =>
                /\ status = "failed"
                /\ published[Last(TerminalPositions)]
                     = FailedStatus("Missing values for variables"))
    /\ []((missing # {} /\ OfType("step_started") # {}) =>
            /\ OfType("variables_applied") # {}
            /\ \A i \in OfType("step_started") : Last(OfType("variables_applied")) < i)

C19_Witness ==
    /\ pc = "done" /\ status = "failed"
    /\ error = "Missing values for variables"
    /\ OfType("variable_prompt") # {}

\* C20: when the operator declines a safety prompt the run ends failed, and a
\* console message about the declined action is published after the prompt and
\* before the terminal runner_status failed.
C20_DeclineConsole ==
    (RunEnded /\ error = "Action declined by operator") =>
        /\ status = "failed"
        /\ published[Last(TerminalPositions)] = FailedStatus("Action declined by operator")
        /\ \E i \in OfType("console") :
            /\ Last(OfType("safety_prompt")) < i
            /\ i < Last(TerminalPositions)

\* Messages of step st published after position i.
StepTrafficAfter(st, i) ==
    {k \in DOMAIN published :
        /\ k > i
        /\ published[k].stepId = st
        /\ published[k].type \in StepMessages \cup {"step_completed"}}

\* The prompt and the response summary of the failed turn were published, one
\* after the other, and nothing of the step after them.
DecisionErrorLogged ==
    \E i \in TurnsOf(step) :
        /\ i < Len(published)
        /\ published[i + 1] = Console("ComputerUse response", step)
        /\ StepTrafficAfter(step, i + 1) = {}
        /\ Cardinality(TurnsOf(step)) = turn
        /\ RunEnded => i + 1 < Last(TerminalPositions)

\* The run ends failed with the error of the agent.
DecisionErrorFails ==
    /\ outcome = "runner_error"
    /\ RunEnded =>
        /\ status = "failed"
        /\ published[Last(TerminalPositions)] = FailedStatus(error)

\* C21 as stated: after any RunnerDecisionError of the agent, the disabled agent
\* included, the prompt and the response summary were published as two console
\* messages, no action of the turn was applied and the run ends failed.
C21_DecisionErrorAlwaysLogged ==
    error \in DecisionErrors => (DecisionErrorLogged /\ DecisionErrorFails)

\* C21 amended: a RunnerDecisionError that carries a prompt and a response
\* summary (no candidates, no supported actions) has both published as two
\* console messages before it propagates; the error of a disabled agent carries
\* neither and nothing is published for it; in both cases no action of the turn
\* is applied and the run ends failed with the error's text.
C21_DecisionErrorLogged ==
    /\ error \in {NoCandidates, NoSupportedActions} => DecisionErrorLogged
    /\ error = AgentDisabled =>
        /\ TurnsOf(step) = {}
        /\ StepTrafficAfter(step, Last(Pos(Event("step_started", step)))) \subseteq
                Pos(Console("Plan instructions", step))
    /\ error \in DecisionErrors => DecisionErrorFails

C21_Witness ==
    /\ pc = "done" /\ status = "failed"
    /\ error = NoCandidates
    /\ turn = MAX_TURNS_PER_STEP

\* A step of request_abort.
AbortCalled == aborts' = aborts + 1

\* C22: request_abort called on a run whose abort was already requested leaves
\* the abort signal set and the pending confirmation, the pending variable
\* request, status and completed_at as they were; no call of request_abort
\* completes a variable future that is already done.
C22_AbortIdempotent ==
    /\ [][(AbortCalled /\ abort_event) =>
            /\ abort_event'
            /\ UNCHANGED <<confirmation_future, variables_future, conf_fut, var_fut,
                           var_values, status, completed_at>>
            /\ UNCHANGED runner]_vars
    /\ [][AbortCalled =>
            \A c \in Callers : var_fut[c] \in {"result", "abort"} => var_fut'[c] = var_fut[c]
         ]_vars

C22_Witness ==
    /\ aborts = 2
    /\ pc = "wait_conf" /\ conf_fut["runner"] = "pending"

\* C23: once the page was opened, every way out of the run (return,
\* AbortRequested, RunnerError, any other exception) closes the page, then the
\* context, then the browser, each once, before the terminal status is
\* published and the runner task finishes; nothing is closed before the run
\* leaves plan execution.
C23_CleanupAlwaysRuns ==
    /\ opened = Resources =>
        /\ RunEnded => closed = <<"page", "context", "browser">>
        /\ TerminalPositions # {} => closed = <<"page", "context", "browser">>
    /\ ~RunEnded => closed = <<>>
    /\ RunnerStatus("browser_ready") \in Published <=> opened = Resources

C23_Witness ==
    /\ pc = "done" /\ outcome = "exception" /\ error = CrashError("apply")
    /\ closed = <<"page", "context", "browser">>

\* Seconds since completed_at was set.
Age == now - completed_at[1]

\* C24: the sweeper removes the run only when completed_at is set and more than
\* COMPLETED_RUN_TTL seconds have passed since; a run without completed_at stays
\* registered, with or without subscribers, and so does a run aged exactly the TTL.
C24_SweeperRemovesOnlyExpired ==
    /\ [][(registered /\ ~registered') =>
            /\ completed_at # <<>>
            /\ Age > COMPLETED_RUN_TTL]_vars
    /\ [](completed_at = <<>> => registered)
    /\ []((completed_at # <<>> /\ Age <= COMPLETED_RUN_TTL) => registered)

C24_Witness ==
    /\ ~registered
    /\ subscribers = {}
    /\ Age = COMPLETED_RUN_TTL + SweepInterval

\* C25: a finished run stays in the registry, and its latest frame can be
\* captured, from its terminal status until more than COMPLETED_RUN_TTL seconds
\* have passed since completed_at; once more than the TTL plus one sweep
\* interval has passed the sweeper has removed it, and a removed run stays
\* removed: capture answers 404.
C25_RetentionOfFinishedRuns ==
    /\ []((TerminalPositions # {} /\ (completed_at = <<>> \/ Age <= COMPLETED_RUN_TTL)) =>
            /\ registered
            /\ runs_capture.status_code = 200
            /\ runs_capture.frame = Last(OfType("runner_frame")))
    /\ []((completed_at # <<>> /\ Age > COMPLETED_RUN_TTL + SweepInterval) =>
            /\ ~registered
            /\ runs_capture.status_code = 404)
    /\ [][~registered => ~registered']_vars

C25_Witness ==
    /\ ~registered
    /\ Age = COMPLETED_RUN_TTL + Quantum
    /\ OfType("runner_frame") # {}

\* ---------------------------------------------------------------------------
\* Teach mode: TeachManager, TeachSession and the /ws/teach bridge.

MaxTeachTime == 2          \* the teach clock stops here
TEACH_FRAME_INTERVAL == 1  \* in ticks of the teach clock
TEACH_MAX_FRAMES == 2

NoTeachId == "None"        \* stop() called without a session id

\* The run variables of a model of teach mode: a run that is never scheduled.
RunAside ==
    /\ nsteps = 1
    /\ checkpoints = FALSE
    /\ stored = FALSE
    /\ ConnectedRun
    /\ start_url = TRUE /\ missing = {}
    /\ embedded = ReadyPage

Elapsed(s, t) == t - s.created_at

\* capture_frame that makes room by dropping the newest stored frame.
capture_frame_PopNewest(s, t, force) ==
    LET elapsed == Elapsed(s, t)
        should_store == force \/ s.frames = <<>>
                              \/ (elapsed - s.last_frame_ts) >= TEACH_FRAME_INTERVAL
        appended == Append(s.frames, [timestamp |-> elapsed, png |-> s.stored + 1])
    IN
    IF should_store
    THEN [s EXCEPT !.frames = IF Len(appended) > TEACH_MAX_FRAMES
                              THEN SubSeq(appended, 1, Len(appended) - 2)
                                       \o <<appended[Len(appended)]>>
                              ELSE appended,
                   !.last_frame_ts = elapsed,
                   !.stored = @ + 1]
    ELSE s

\* TeachSession.capture_frame at time t; png is the serial number of the
\* screenshot among the stored ones.
capture_frame(s, t, force) ==
    LET elapsed == Elapsed(s, t)
        should_store == force \/ s.frames = <<>>
                              \/ (elapsed - s.last_frame_ts) >= TEACH_FRAME_INTERVAL
        appended == Append(s.frames, [timestamp |-> elapsed, png |-> s.stored + 1])
    IN
    IF should_store
    THEN [s EXCEPT !.frames = IF Len(appended) > TEACH_MAX_FRAMES
                              THEN Tail(appended) ELSE appended,
                   !.last_frame_ts = elapsed,
                   !.stored = @ + 1]
    ELSE s

InSessions(id) == \E i \in 1..Len(sessions) : sessions[i] = id

Without(seq, id) == SelectSeq(seq, LAMBDA x : x # id)

\* time.time() moves on.
TeachTick ==
    /\ teach_time < MaxTeachTime
    /\ teach_time' = teach_time + 1
    /\ UNCHANGED <<sessions, session, ws_open, received, stops>>
    /\ UNCHANGED <<inputs, request, consumed, registry, status, completed_at, abort_event,
                   subscribers, bus, futures, runner, other_pc, other_calls, ghost>>

\* TeachManager.start: a new session under an id made of the time.
TeachStart(id) ==
    /\ ~InSessions(id)
    /\ id \notin ws_open
    /\ sessions' = Append(sessions, id)
    /\ session' = [session EXCEPT ![id] = TeachSession(teach_time)]
    /\ received' = [received EXCEPT ![id] = <<>>]
    /\ UNCHANGED <<teach_time, ws_open, stops>>
    /\ UNCHANGED <<inputs, request, consumed, registry, status, completed_at, abort_event,
                   subscribers, bus, futures, runner, other_pc, other_calls, ghost>>

\* The end of stop where a failed screenshot is not suppressed.
stop_bundle_Raises(id, s, shot) ==
    IF shot THEN StopResult(TRUE, "", id, s.events)
            ELSE StopResult(FALSE, "screenshot failed", id, <<>>)

\* TeachManager.stop, lines 247-260: the bundle it returns for session s,
\* whether the forced screenshot succeeded (shot) or not.
stop_bundle(id, s, shot) == StopResult(TRUE, "", id, s.events)

\* TeachManager.stop up to its first await: under the lock, popitem() without
\* an id, pop(session_id) with one, or the refusal; then running = False.
TeachStop(arg) ==
    /\ stopping = <<>>
    /\ IF sessions = <<>>
       THEN /\ stop_result' = StopResult(FALSE, "no active session", "None", <<>>)
            /\ UNCHANGED <<sessions, session, stopping>>
       ELSE IF arg # NoTeachId /\ ~InSessions(arg)
       THEN /\ stop_result' = StopResult(FALSE, "no such session", "None", <<>>)
            /\ UNCHANGED <<sessions, session, stopping>>
       ELSE LET id == IF arg = NoTeachId THEN sessions[Len(sessions)] ELSE arg IN
            /\ sessions' = Without(sessions, id)
            /\ session' = [session EXCEPT ![id].running = FALSE]
            /\ stopping' = <<id>>
            /\ UNCHANGED stop_result
    /\ UNCHANGED <<teach_time, ws_open, received>>
    /\ UNCHANGED <<inputs, request, consumed, registry, status, completed_at, abort_event,
                   subscribers, bus, futures, runner, other_pc, other_calls, ghost>>

\* TeachManager.stop from its first await: the forced last frame, whose
\* screenshot may fail, the closing of context and browser, which may fail
\* (all suppressed), and the bundle.
TeachStopReturn ==
    /\ stopping # <<>>
    /\ LET id == stopping[1] IN
       \E shot \in BOOLEAN :
          /\ session' = [session EXCEPT
                            ![id] = IF shot THEN capture_frame(@, teach_time, TRUE) ELSE @]
          /\ stop_result' = stop_bundle(id, session[id], shot)
    /\ stopping' = <<>>
    /\ UNCHANGED <<sessions, teach_time, ws_open, received>>
    /\ UNCHANGED <<inputs, request, consumed, registry, status, completed_at, abort_event,
                   subscribers, bus, futures, runner, other_pc, other_calls, ghost>>

\* ws_teach: teach_manager.get found the session; the frame pump is started.
WsTeachConnect(id) ==
    /\ InSessions(id)
    /\ id \notin ws_open
    /\ ws_open' = ws_open \cup {id}
    /\ UNCHANGED <<sessions, session, teach_time, received, stops>>
    /\ UNCHANGED <<inputs, request, consumed, registry, status, completed_at, abort_event,
                   subscribers, bus, futures, runner, other_pc, other_calls, ghost>>

\* ws_teach: the socket is gone or a message failed; the finally clause.
WsTeachDisconnect(id) ==
    /\ id \in ws_open
    /\ ws_open' = ws_open \ {id}
    /\ session' = [session EXCEPT ![id].running = FALSE]
    /\ UNCHANGED <<sessions, teach_time, received, stops>>
    /\ UNCHANGED <<inputs, request, consumed, registry, status, completed_at, abort_event,
                   subscribers, bus, futures, runner, other_pc, other_calls, ghost>>

\* pump_frames: one turn of the loop.
PumpFrames(id) ==
    /\ id \in ws_open
    /\ session[id].running
    /\ session' = [session EXCEPT ![id] = capture_frame(@, teach_time, FALSE)]
    /\ UNCHANGED <<sessions, teach_time, ws_open, received, stops>>
    /\ UNCHANGED <<inputs, request, consumed, registry, status, completed_at, abort_event,
                   subscribers, bus, futures, runner, other_pc, other_calls, ghost>>

InitTeach ==
    /\ NoPlan
    /\ RunAside
    /\ TeachIdle

NextTeach ==
    \/ TeachTick
    \/ \E id \in TeachIds : TeachStart(id)
    \/ \E arg \in TeachIds \cup {NoTeachId} : TeachStop(arg)
    \/ TeachStopReturn
    \/ \E id \in TeachIds : WsTeachConnect(id)
    \/ \E id \in TeachIds : WsTeachDisconnect(id)
    \/ \E id \in TeachIds : PumpFrames(id)

\* The teach manager, its sessions and their frame pumps.
SpecTeach == InitTeach /\ [][NextTeach]_vars

MaxEvents == 4             \* key messages are read while the event list is shorter
MaxMouse == 3              \* mouse messages read per session

NoKey == ""                \* a key_down or key_up message without a key
Bridged == "teach_1"       \* the session the bridge serves

KeyEvent(ts, kind, key) == [ts |-> ts, kind |-> kind, key |-> key]

\* record_key_down that stamps the key again on a repeat.
record_key_down_Restamp(s, t, key) ==
    LET now_ == Elapsed(s, t) IN
    IF key = NoKey THEN s
    ELSE IF s.pressed_keys[key] = <<>>
    THEN [s EXCEPT !.pressed_keys[key] = <<now_>>,
                   !.events = Append(@, KeyEvent(now_, "keydown", key))]
    ELSE [s EXCEPT !.pressed_keys[key] = <<now_>>,
                   !.events = Append(@, KeyEvent(now_, "keydown_repeat", key))]

\* TeachSession.record_key_down at time t (code, mods and extra are carried
\* along unchanged and left out).
record_key_down(s, t, key) ==
    LET now_ == Elapsed(s, t) IN
    IF key = NoKey THEN s
    ELSE IF s.pressed_keys[key] = <<>>
    THEN [s EXCEPT !.pressed_keys[key] = <<now_>>,
                   !.events = Append(@, KeyEvent(now_, "keydown", key))]
    ELSE [s EXCEPT !.events = Append(@, KeyEvent(now_, "keydown_repeat", key))]

\* TeachSession.record_key_up at time t.
record_key_up(s, t, key) ==
    LET now_ == Elapsed(s, t)
        pressed == IF key = NoKey THEN <<>> ELSE s.pressed_keys[key]
        keyup == KeyEvent(now_, "keyup", key)
    IN
    IF key = NoKey THEN s
    ELSE IF pressed # <<>>
    THEN [s EXCEPT !.pressed_keys[key] = <<>>,
                   !.events = @ \o <<keyup,
                                     [ts |-> now_, kind |-> "key_hold", key |-> key,
                                      duration |-> IF now_ - pressed[1] < 0 THEN 0
                                                   ELSE now_ - pressed[1]]>>]
    ELSE [s EXCEPT !.events = Append(@, keyup)]

\* ws_teach: a key_down message.
KeyDown(id, key) ==
    /\ id \in ws_open
    /\ Len(session[id].events) < MaxEvents
    /\ session' = [session EXCEPT ![id] = record_key_down(@, teach_time, key)]
    /\ UNCHANGED <<sessions, teach_time, ws_open, received, stops>>
    /\ UNCHANGED <<inputs, request, consumed, registry, status, completed_at, abort_event,
                   subscribers, bus, futures, runner, other_pc, other_calls, ghost>>

\* ws_teach: a key_up message.
KeyUp(id, key) ==
    /\ id \in ws_open
    /\ Len(session[id].events) < MaxEvents
    /\ session' = [session EXCEPT ![id] = record_key_up(@, teach_time, key)]
    /\ UNCHANGED <<sessions, teach_time, ws_open, received, stops>>
    /\ UNCHANGED <<inputs, request, consumed, registry, status, completed_at, abort_event,
                   subscribers, bus, futures, runner, other_pc, other_calls, ghost>>

\* The mouse messages of the bridge, at two points of the page.
MouseMessages ==
    [type : {"mouse_down", "mouse_up"},
     xy : {<<100, 100>>, <<400, 400>>}, button : {"left", "right"}]
        \cup [type : {"mouse_move"},
              xy : {<<100, 100>>, <<400, 400>>}, button : {"none"}]

\* ws_teach: a mouse_move, mouse_down or mouse_up message.  The page's mouse is
\* driven, then session.record_mouse_move / record_mouse_down / record_mouse_up
\* is called: TeachSession has no such attribute, the AttributeError is caught
\* by `except Exception` and the finally clause ends the bridge.
MouseMessage(id, msg) ==
    /\ id \in ws_open
    /\ Len(received[id]) < MaxMouse
    /\ received' = [received EXCEPT ![id] = Append(@, msg)]
    /\ session' = [session EXCEPT ![id].running = FALSE]
    /\ ws_open' = ws_open \ {id}
    /\ UNCHANGED <<sessions, teach_time, stops>>
    /\ UNCHANGED <<inputs, request, consumed, registry, status, completed_at, abort_event,
                   subscribers, bus, futures, runner, other_pc, other_calls, ghost>>

\* A teach session started at time 0 with its bridge connected.
InitBridge ==
    /\ NoPlan
    /\ RunAside
    /\ sessions = <<Bridged>>
    /\ session = [id \in TeachIds |->
                      IF id = Bridged THEN TeachSession(0)
                      ELSE [TeachSession(0) EXCEPT !.running = FALSE]]
    /\ teach_time = 0
    /\ ws_open = {Bridged}
    /\ received = [id \in TeachIds |-> <<>>]
    /\ stopping = <<>>
    /\ stop_result = NoStop

\* The keyboard of a teach session.
SpecKeys ==
    InitBridge /\
    [][\/ TeachTick
       \/ WsTeachConnect(Bridged)
       \/ WsTeachDisconnect(Bridged)
       \/ \E key \in Keys \cup {NoKey} : KeyDown(Bridged, key)
       \/ \E key \in Keys \cup {NoKey} : KeyUp(Bridged, key)]_vars

\* The mouse of a teach session, and its end.
SpecMouse ==
    InitBridge /\
    [][\/ WsTeachConnect(Bridged)
       \/ WsTeachDisconnect(Bridged)
       \/ \E msg \in MouseMessages : MouseMessage(Bridged, msg)
       \/ TeachStop(NoTeachId)
       \/ TeachStopReturn]_vars

\* The keyboard of a teach session, and its end.
SpecStop ==
    InitBridge /\
    [][\/ WsTeachConnect(Bridged)
       \/ WsTeachDisconnect(Bridged)
       \/ \E key \in Keys : KeyDown(Bridged, key)
       \/ \E key \in Keys : KeyUp(Bridged, key)
       \/ \E arg \in TeachIds \cup {NoTeachId} : TeachStop(arg)
       \/ TeachStopReturn]_vars

\* ---------------------------------------------------------------------------
\* Plans and their placeholders (synthesis.py).

Braces == {"{", "}"}

\* The first position from j on that holds a brace, or the end.
FirstBrace(text, j) ==
    LET at == {k \in j..Len(text) : text[k] \in Braces}
    IN IF at = {} THEN Len(text) + 1 ELSE CHOOSE k \in at : \A m \in at : k <= m

\* str.strip()
Strip(text) ==
    LET solid == {k \in 1..Len(text) : text[k] # " "}
    IN IF solid = {} THEN <<>>
       ELSE SubSeq(text, CHOOSE k \in solid : \A m \in solid : k <= m,
                         CHOOSE k \in solid : \A m \in solid : m <= k)

NoMatch == [matched |-> FALSE, end |-> 0, raw |-> <<>>]

\* _PLACEHOLDER_PATTERN tried at position i: first {{ name }}, whose name
\* starts with a character that is neither a brace nor a space, then {name}.
PlaceholderMatch(text, i) ==
    LET n == Len(text)
        spaces == {k \in (i + 2)..n : text[k] # " "}
        j == IF spaces = {} THEN n + 1 ELSE CHOOSE k \in spaces : \A m \in spaces : k <= m
        kd == FirstBrace(text, j)
        double == /\ i + 1 <= n /\ text[i] = "{" /\ text[i + 1] = "{"
                  /\ j <= n /\ text[j] \notin Braces
                  /\ kd + 1 <= n /\ text[kd] = "}" /\ text[kd + 1] = "}"
        ks == FirstBrace(text, i + 1)
        single == /\ i <= n /\ text[i] = "{"
                  /\ ks > i + 1
                  /\ ks <= n /\ text[ks] = "}"
    IN IF double THEN [matched |-> TRUE, end |-> kd + 1, raw |-> SubSeq(text, j, kd - 1)]
       ELSE IF single THEN [matched |-> TRUE, end |-> ks, raw |-> SubSeq(text, i + 1, ks - 1)]
       ELSE NoMatch

\* scan of collect_plan_placeholders: finditer from position i on, with
\* _extract_placeholder.
RECURSIVE scan(_, _)
scan(text, i) ==
    IF i > Len(text) THEN {}
    ELSE LET m == PlaceholderMatch(text, i) IN
         IF m.matched
         THEN (IF Strip(m.raw) = <<>> THEN {} ELSE {Strip(m.raw)}) \cup scan(text, m.end + 1)
         ELSE scan(text, i + 1)

collect_plan_placeholders(p) ==
    scan(p.name, 1) \cup
    UNION {scan(p.steps[i].title, 1) \cup scan(p.steps[i].instructions, 1) :
              i \in 1..Len(p.steps)}

\* normalize_plan_variables that resets the variable of every placeholder.
normalize_Overwrites(p) ==
    LET names == collect_plan_placeholders(p) IN
    [plan |-> [p EXCEPT !.vars = [k \in DOMAIN p.vars \cup names |->
                                     IF k \in names THEN "" ELSE p.vars[k]],
                        !.has_variables = names # {}],
     placeholders |-> names]

\* normalize_plan_variables that takes vars_changed for has_variables.
normalize_ChangedIsHas(p) ==
    LET names == collect_plan_placeholders(p) IN
    [plan |-> [p EXCEPT !.vars = [k \in DOMAIN p.vars \cup names |->
                                     IF k \in DOMAIN p.vars THEN p.vars[k] ELSE ""],
                        !.has_variables = (names \ DOMAIN p.vars # {})],
     placeholders |-> names]

\* normalize_plan_variables on a Plan: the plan and the placeholders it returns.
normalize(p) ==
    LET names == collect_plan_placeholders(p) IN
    [plan |-> [p EXCEPT !.vars = [k \in DOMAIN p.vars \cup names |->
                                     IF k \in DOMAIN p.vars THEN p.vars[k] ELSE ""],
                        !.has_variables = names # {}],
     placeholders |-> names]

\* A call of normalize_plan_variables: on the plan, then on the plan returned.
Normalize ==
    /\ Len(normal) < 2
    /\ normal' = Append(normal, normalize(IF normal = <<>> THEN plan
                                          ELSE normal[Len(normal)].plan))
    /\ UNCHANGED <<plan, point, pixel, placeholders, plan_vars, provided_vars, response>>
    /\ UNCHANGED <<inputs, consumed, teach, registry, status, completed_at, abort_event,
                   subscribers, bus, futures, runner, other_pc, other_calls, ghost>>

InitNormalize ==
    /\ RunAside
    /\ TeachIdle
    /\ plan \in Plans
    /\ normal = <<>>
    /\ point = <<>>
    /\ pixel = <<>>

SpecNormalize == InitNormalize /\ [][Normalize]_vars

\* The messages a connected client's sender has not taken from its queue yet.
Backlog(s) == Len(queues[s]) - consumed[s]

\* The positions the step from the current state to the next one publishes.
NewPositions == <<Len(published) + 1, Len(published')>>

PublishedNow ==
    [i \in 1..(NewPositions[2] - NewPositions[1] + 1) |-> NewPositions[1] + i - 1]

\* C26: the publisher is never blocked by a slow or absent consumer. Whatever
\* backlog the subscribers hold, the runner can take its next step unless it
\* has finished or waits for an operator's reply, and a step that publishes
\* puts every message it publishes, in order, at the end of the queue of every
\* registered subscriber. A client that disconnects leaves the runner, the
\* published messages and the queues of the other subscribers as they were.
C26_PublisherNeverBlocked ==
    /\ []((pc \notin HandshakeAwaits \cup {"done"}) => ENABLED RunnerUnprompted)
    /\ [][(Len(published') > Len(published)) =>
            /\ subscribers' = subscribers
            /\ \A s \in subscribers : queues'[s] = queues[s] \o PublishedNow]_vars
    /\ [][(subscribers' # subscribers /\ subscribers' \subseteq subscribers) =>
            /\ runner' = runner
            /\ published' = published
            /\ status' = status
            /\ \A s \in subscribers' :
                    queues'[s] = queues[s] /\ consumed'[s] = consumed[s]]_vars

\* The run finished while one client never read a message and the other was
\* behind, after a client had disconnected and come back in mid-run.
C26_Witness ==
    /\ pc = "done"
    /\ subscribers = Subs
    /\ consumed["s2"] = 0
    /\ Backlog("s2") >= 4
    /\ Backlog("s1") >= 1
    /\ \E s \in Subs : joined_at[s] > 0

\* C27: after any sequence of TeachManager.start and stop calls the manager
\* holds at most one active session.
C27_SingleActiveSession == Len(sessions) <= 1

FramesOf(id) == session[id].frames

InCaptureOrder(frames) ==
    \A i, j \in 1..Len(frames) :
        i < j => /\ frames[i].png < frames[j].png
                 /\ frames[i].timestamp <= frames[j].timestamp

\* The step stores a frame in the session object of id.
Stores(id) == session'[id].stored = session[id].stored + 1

\* C29: a teach session never holds more than TEACH_MAX_FRAMES frames and
\* holds them in capture order; a frame stored into a full buffer goes to the
\* end and the oldest frame, the one at the head, is the one dropped.
C29_FrameBufferCap ==
    /\ [](\A id \in TeachIds :
            /\ Len(FramesOf(id)) <= TEACH_MAX_FRAMES
            /\ InCaptureOrder(FramesOf(id)))
    /\ [][\A id \in TeachIds :
            (Stores(id) /\ Len(FramesOf(id)) = TEACH_MAX_FRAMES) =>
                session'[id].frames =
                    Tail(FramesOf(id)) \o
                        <<[timestamp |-> Elapsed(session[id], teach_time),
                           png |-> session[id].stored + 1]>>]_vars

\* A session that has stored more frames than the buffer holds.
C29_Witness ==
    \E id \in TeachIds :
        /\ session[id].stored > TEACH_MAX_FRAMES
        /\ Len(FramesOf(id)) = TEACH_MAX_FRAMES
        /\ FramesOf(id)[1].png = session[id].stored - TEACH_MAX_FRAMES + 1

\* The down/up pairs among the mouse messages read for a session: a mouse_up
\* and the mouse_down before it, with nothing but mouse_move in between.
Pairs(id) ==
    LET r == received[id] IN
    {p \in (1..Len(r)) \X (1..Len(r)) :
        /\ p[1] < p[2]
        /\ r[p[1]].type = "mouse_down" /\ r[p[2]].type = "mouse_up"
        /\ r[p[1]].button = r[p[2]].button
        /\ \A k \in (p[1] + 1)..(p[2] - 1) : r[k].type = "mouse_move"}

\* The pointer was moved between the two, from one point of the page to a
\* point 300 pixels away in each direction.
Dragged(id, p) ==
    /\ p[2] > p[1] + 1
    /\ received[id][p[1]].xy # received[id][p[2]].xy

EventsOfKind(id, kind) ==
    {i \in 1..Len(session[id].events) : session[id].events[i].kind = kind}

\* C28: every down/up pair read by the bridge has recorded exactly one event:
\* a drag with the start point, the end point and the button when the pointer
\* was moved beyond the threshold in between, a click at the point of release
\* otherwise; a mouse_down alone records nothing.
C28_DragDetection ==
    \A id \in TeachIds :
        LET r == received[id]
            ev == session[id].events
        IN
        /\ Cardinality(EventsOfKind(id, "drag")) =
               Cardinality({p \in Pairs(id) : Dragged(id, p)})
        /\ Cardinality(EventsOfKind(id, "click")) =
               Cardinality({p \in Pairs(id) : ~Dragged(id, p)})
        /\ \A p \in Pairs(id) :
               IF Dragged(id, p)
               THEN \E i \in EventsOfKind(id, "drag") :
                        /\ ev[i].start_xy = r[p[1]].xy
                        /\ ev[i].end_xy = r[p[2]].xy
                        /\ ev[i].button = r[p[1]].button
               ELSE \E i \in EventsOfKind(id, "click") :
                        /\ ev[i].xy = r[p[2]].xy
                        /\ ev[i].button = r[p[2]].button

Taught == session[Bridged]

\* The time of the keydown event that began the present press of key: the
\* last keydown of the key in the event list.
FirstDown(events, key) ==
    LET downs == {i \in 1..Len(events) :
                     events[i].kind = "keydown" /\ events[i].key = key}
    IN events[CHOOSE i \in downs : \A j \in downs : j <= i].ts

\* C30: a key_down for a key that is not pressed adds the key to the pressed
\* set, stamped with the time, and appends one keydown event; a key_down for a
\* pressed key appends one keydown_repeat event and leaves the pressed set and
\* the stored timestamps as they were; a key_up for a pressed key removes the
\* key and appends keyup and, right after it, key_hold, whose duration is the
\* time since the keydown event that began the press.
C30_KeyStateMachine ==
    [][\A key \in Keys :
        LET now_ == Elapsed(Taught, teach_time)
            held == Taught.pressed_keys[key] # <<>>
        IN
        /\ (KeyDown(Bridged, key) /\ ~held) =>
              /\ session'[Bridged].pressed_keys =
                     [Taught.pressed_keys EXCEPT ![key] = <<now_>>]
              /\ session'[Bridged].events =
                     Append(Taught.events, KeyEvent(now_, "keydown", key))
        /\ (KeyDown(Bridged, key) /\ held) =>
              /\ session'[Bridged].pressed_keys = Taught.pressed_keys
              /\ session'[Bridged].events =
                     Append(Taught.events, KeyEvent(now_, "keydown_repeat", key))
        /\ (KeyUp(Bridged, key) /\ held) =>
              /\ session'[Bridged].pressed_keys =
                     [Taught.pressed_keys EXCEPT ![key] = <<>>]
              /\ session'[Bridged].events =
                     Taught.events \o
                        <<KeyEvent(now_, "keyup", key),
                          [ts |-> now_, kind |-> "key_hold", key |-> key,
                           duration |-> now_ - FirstDown(Taught.events, key)]>>]_vars

\* A key went down, repeated one tick later and came up another tick later:
\* the hold lasted two ticks.
C30_Witness ==
    \E key \in Keys :
        Taught.events = <<KeyEvent(0, "keydown", key),
                          KeyEvent(1, "keydown_repeat", key),
                          KeyEvent(2, "keyup", key),
                          [ts |-> 2, kind |-> "key_hold", key |-> key, duration |-> 2]>>

\* C31: stop takes the session out of the manager and marks it not running
\* before anything else, and then returns ok with the events logged so far, in
\* the order they were logged, whether or not the last screenshot and the
\* closing succeed; a stop that finds no session reports it and changes
\* nothing; a bridge that ends leaves its session in the manager with its
\* events, and only stop takes a session out.
C31_TeachStop ==
    /\ [](stopping # <<>> =>
            /\ ~InSessions(stopping[1])
            /\ ~session[stopping[1]].running)
    /\ []((stop_result.ok /\ stopping = <<>>) =>
            /\ ~InSessions(stop_result.teachId)
            /\ ~session[stop_result.teachId].running)
    /\ [][TeachStopReturn =>
            /\ stop_result'.ok
            /\ stop_result'.teachId = stopping[1]
            /\ stop_result'.events = session[stopping[1]].events]_vars
    /\ [][\A arg \in TeachIds \cup {NoTeachId} :
            (TeachStop(arg) /\ (sessions = <<>> \/ (arg # NoTeachId /\ ~InSessions(arg)))) =>
                /\ ~stop_result'.ok
                /\ stop_result'.reason \in {"no active session", "no such session"}
                /\ UNCHANGED <<sessions, session>>]_vars
    /\ [][WsTeachDisconnect(Bridged) =>
            /\ sessions' = sessions
            /\ session'[Bridged].events = session[Bridged].events
            /\ ~session'[Bridged].running]_vars
    /\ [][sessions' # sessions => \E arg \in TeachIds \cup {NoTeachId} : TeachStop(arg)]_vars

\* stop returned the events of a session whose bridge had ended, although the
\* last screenshot failed (no frame was ever stored), and a second stop was
\* refused.
C31_Witness ==
    /\ ~stop_result.ok
    /\ stop_result.reason = "no active session"
    /\ ~InSessions(Bridged)
    /\ Bridged \notin ws_open
    /\ Len(session[Bridged].events) >= 3
    /\ session[Bridged].frames = <<>>

\* The runner has come back from wait_for_embedded_page.
PastStartUrl == start_url /\ opened = Resources /\ pc # "goto"

NoFrameReady == \A i \in 1..MaxPolls : embedded.polls[i] # "ready"

SawFrame == \E i \in 1..MaxPolls : embedded.polls[i] = "loading"

\* The run was failed at the start page: no navigate event and no frame were
\* published, and the error is that of the embedded frame.
FailedAtStartUrl ==
    /\ outcome = "runner_error"
    /\ error = "Start url iframe not ready"
    /\ OfType("navigate") = {}
    /\ OfType("runner_frame") = {}
    /\ pc = "done" => /\ status = "failed"
                      /\ published[Last(TerminalPositions)].error = error

\* C32 as stated: whenever no eligible child frame became ready within the
\* (positive) timeout on a page that is not itself on the expected host, the
\* wait has failed, and the run with it: no navigate event, no frame, status
\* failed with 'Start url iframe not ready'.
C32_FailsWheneverNoFrameReady ==
    (PastStartUrl /\ embedded.timeout_positive /\ ~embedded.main_is_host /\ NoFrameReady)
        => FailedAtStartUrl

\* C32: the wait fails exactly when the timeout is positive, the page itself
\* is not on the expected host, a child frame was seen and none became ready
\* within the timeout; it returns when no child frame was seen at all.  When
\* it fails the runner publishes no navigate event and no frame and the run
\* ends failed with 'Start url iframe not ready'; when it returns the navigate
\* event is published.
C32_EmbeddedFrameWait ==
    PastStartUrl =>
        IF /\ embedded.timeout_positive
           /\ ~embedded.main_is_host
           /\ NoFrameReady
           /\ SawFrame
        THEN FailedAtStartUrl
        ELSE /\ OfType("navigate") # {}
             /\ error # "Start url iframe not ready"

\* A run that ended failed because the embedded frame was seen and never
\* became ready.
C32_Witness ==
    /\ pc = "done"
    /\ status = "failed"
    /\ FailedAtStartUrl
    /\ embedded.polls[1] = "no_frame"
    /\ embedded.polls[MaxPolls] = "loading"

\* The placeholders written in a text: the stripped, non-empty contents of
\* every pair of braces { } that holds no other brace.
Written(text) ==
    {Strip(SubSeq(text, i + 1, k - 1)) :
        <<i, k>> \in {q \in (1..Len(text)) \X (1..Len(text)) :
                        /\ q[1] < q[2]
                        /\ text[q[1]] = "{" /\ text[q[2]] = "}"
                        /\ \A m \in (q[1] + 1)..(q[2] - 1) : text[m] \notin Braces}}
        \ {<<>>}

WrittenIn(p) ==
    Written(p.name) \cup
    UNION {Written(p.steps[i].title) \cup Written(p.steps[i].instructions) :
              i \in 1..Len(p.steps)}

\* C33: after normalize the placeholders returned are those written in the
\* plan's name, step titles and step instructions; each is a key of the
\* returned vars, with the empty string when it was no key before; the values
\* the plan had are untouched and no other key is added; has_variables is
\* true exactly when there is a placeholder; name and steps are unchanged.
C33_PlaceholderClosure ==
    normal # <<>> =>
        LET out == normal[1].plan
            names == normal[1].placeholders
        IN
        /\ names = WrittenIn(plan)
        /\ names \subseteq DOMAIN out.vars
        /\ DOMAIN out.vars = DOMAIN plan.vars \cup names
        /\ \A k \in DOMAIN plan.vars : out.vars[k] = plan.vars[k]
        /\ \A k \in names \ DOMAIN plan.vars : out.vars[k] = ""
        /\ out.has_variables = (names # {})
        /\ out.name = plan.name /\ out.steps = plan.steps

\* A plan whose name holds {{ a }} and whose step holds b, with a value for a
\* and none for b and a wrong has_variables, was normalized.
C33_Witness ==
    /\ normal # <<>>
    /\ plan.name = <<"{", "{", "a", "}", "}">>
    /\ ~plan.has_variables
    /\ DOMAIN plan.vars = {KeyA}
    /\ normal[1].placeholders = {KeyA, KeyB}
    /\ normal[1].plan.vars[KeyA] = "x"
    /\ normal[1].plan.vars[KeyB] = ""

\* C34: normalizing the plan that normalize returned returns that plan again,
\* and the same placeholders.
C34_IdempotentNormalize ==
    Len(normal) = 2 =>
        /\ normal[2].plan = normal[1].plan
        /\ normal[2].placeholders = normal[1].placeholders

\* A plan that the first call changed (a key added, has_variables corrected)
\* was normalized twice.
C34_Witness ==
    /\ Len(normal) = 2
    /\ normal[1].plan # plan
    /\ normal[1].plan.vars # plan.vars
    /\ normal[1].plan.has_variables # plan.has_variables
    /\ normal[2].placeholders # {}

\* ---------------------------------------------------------------------------
\* _denormalize_point: normalized coordinates to viewport pixels.

NORMALIZED_RANGE == 999
Width == 1440              \* RUNNER_VIEWPORT["width"]
Height == 900              \* RUNNER_VIEWPORT["height"]
Overshoot == 2             \* how far outside [0, NORMALIZED_RANGE] the inputs go

\* A Python float: a number counted in halves (v = 3 is 1.5), nan, inf or -inf.
Num(v) == [kind |-> "num", v |-> v]
NaN == [kind |-> "nan", v |-> 0]
PosInf == [kind |-> "inf", v |-> 0]
NegInf == [kind |-> "-inf", v |-> 0]

\* a < b on floats: false whenever either side is nan.
Less(a, b) ==
    CASE a.kind = "nan" \/ b.kind = "nan" -> FALSE
      [] a.kind = "-inf" -> b.kind # "-inf"
      [] a.kind = "inf" -> FALSE
      [] b.kind = "inf" -> TRUE
      [] b.kind = "-inf" -> FALSE
      [] OTHER -> a.v < b.v

\* The builtins min(a, b) and max(a, b): the first argument unless the second
\* compares smaller (larger).
py_min(a, b) == IF Less(b, a) THEN b ELSE a
py_max(a, b) == IF Less(a, b) THEN b ELSE a

\* clamp of _denormalize_point: max(0.0, min(coord, float(NORMALIZED_RANGE))).
clamp(coord) == py_max(Num(0), py_min(coord, Num(2 * NORMALIZED_RANGE)))

\* round(num / den) for den > 0 as Python 3 rounds: to the nearest integer,
\* a tie to the even one.
py_round(num, den) ==
    LET q == num \div den
        r == num - q * den
    IN  IF 2 * r < den THEN q
        ELSE IF 2 * r > den THEN q + 1
        ELSE IF q % 2 = 0 THEN q ELSE q + 1

\* int(round((c / NORMALIZED_RANGE) * span)); round raises on nan and inf.
scale(c, span) ==
    IF c.kind # "num" THEN "raises"
    ELSE py_round(c.v * span, 2 * NORMALIZED_RANGE)

denormalize_FullWidth(p) ==
    <<scale(clamp(p[1]), Width), scale(clamp(p[2]), Height)>>

denormalize(p) ==
    <<scale(clamp(p[1]), Width - 1), scale(clamp(p[2]), Height - 1)>>

\* The coordinates tried: every half from Overshoot below the range to
\* Overshoot above it and the non-finite floats on one axis, the corners, the
\* middle, the nearest values outside and the non-finite floats on the other.
EveryCoord ==
    {Num(v) : v \in (-2 * Overshoot)..(2 * (NORMALIZED_RANGE + Overshoot))}
        \cup {NaN, PosInf, NegInf}
SomeCoords ==
    {Num(0), Num(NORMALIZED_RANGE), Num(2 * NORMALIZED_RANGE), Num(-1),
     Num(2 * NORMALIZED_RANGE + 1), NaN, PosInf}

DenormalizePoint ==
    /\ pixel = <<>>
    /\ pixel' = <<denormalize(point)>>
    /\ UNCHANGED <<plan, normal, point, placeholders, plan_vars, provided_vars, response>>
    /\ UNCHANGED <<inputs, consumed, teach, registry, status, completed_at, abort_event,
                   subscribers, bus, futures, runner, other_pc, other_calls, ghost>>

InitDenormalize ==
    /\ RunAside
    /\ TeachIdle
    /\ plan = [name |-> <<>>, steps |-> <<>>, vars |-> <<>>, has_variables |-> FALSE]
    /\ normal = <<>>
    /\ point \in (EveryCoord \X SomeCoords) \cup (SomeCoords \X EveryCoord)
    /\ pixel = <<>>

SpecDenormalize == InitDenormalize /\ [][DenormalizePoint]_vars

\* C35: the pixel _denormalize_point returns lies in [0, Width-1] x
\* [0, Height-1] for every float given, also outside [0, 999] and non-finite;
\* 0 gives pixel 0 and 999 gives the last pixel of the axis, and so do the
\* values below 0 and above 999.
C35_PixelInViewport ==
    pixel # <<>> =>
        LET px == pixel[1]
            last == <<Width - 1, Height - 1>>
        IN  \A i \in 1..2 :
              /\ px[i] \in 0..last[i]
              /\ point[i] = Num(0) => px[i] = 0
              /\ point[i] = Num(2 * NORMALIZED_RANGE) => px[i] = last[i]
              /\ Less(point[i], Num(0)) => px[i] = 0
              /\ Less(Num(2 * NORMALIZED_RANGE), point[i]) => px[i] = last[i]

\* A point right of the range and at the top edge was denormalized to the
\* last column of the first row.
C35_Witness ==
    /\ pixel = <<<<Width - 1, 0>>>>
    /\ point[1].kind = "num" /\ point[1].v > 2 * NORMALIZED_RANGE
    /\ point[2] = Num(0)

\* ---------------------------------------------------------------------------
\* Steps without checkpoints.

\* The positions of the 'Action failed' console messages of step st.
FailuresOf(st) == {i \in DOMAIN published : published[i] = Console("Runner", st)}

\* The runner leaves the await of the turn's final frame.
TurnEnds == pc = "final_frame" /\ pc' # "final_frame"

\* C36: in a step without checkpoints, the turn that ends without a failed
\* action ends the step: the final frame is followed at once by
\* step_completed, and the step gets no further turn (no agent call, no
\* action); a step gets a further turn only after a turn with a failed action.
C36_StepCompletesAfterCleanTurn ==
    /\ [](~require_visual_match =>
            \A st \in 1..nsteps :
              /\ Cardinality(TurnsOf(st)) <= 1 + Cardinality(FailuresOf(st))
              /\ \A i \in OfType("step_completed") :
                    published[i].stepId = st =>
                      /\ published[i - 1] = Frame(st)
                      /\ \A k \in TurnsOf(st) : k < i
                      /\ \A k \in OfType("action_executed") :
                            published[k].stepId = st => k < i)
    /\ [][(TurnEnds /\ ~require_visual_match /\ ~action_failed) =>
            /\ Len(published') >= Len(published) + 2
            /\ published'[Len(published) + 1] = Frame(step)
            /\ published'[Len(published) + 2] = Event("step_completed", step)
            /\ step' = step + 1
            /\ ~(pc' = "turn" /\ turn' > 1)]_vars

\* The first turn of step 1 had a failed action, the second had none, and the
\* step was completed after it; the runner is in step 2.
C36_Witness ==
    /\ ~require_visual_match
    /\ Cardinality(TurnsOf(1)) = 2
    /\ Cardinality(FailuresOf(1)) = 1
    /\ Event("step_completed", 1) \in Published
    /\ step = 2 /\ pc = "turn"

\* ---------------------------------------------------------------------------
\* The abort checks of the runner.

\* The runner is about to resume and its next abort check is the one at the
\* top of the step loop (for a step of the plan), at the top of a turn, or
\* around the variable handshake.
AtStepLoopTop ==
    \/ pc = "capture0" /\ missing = {} /\ nsteps >= 1
    \/ pc = "final_frame" /\ ~action_failed /\ ~require_visual_match /\ step < nsteps
AtTurnTop == pc = "final_frame" /\ action_failed /\ turn < MAX_TURNS_PER_STEP
AtHandshake ==
    \/ pc = "capture0" /\ missing # {}
    \/ pc = "wait_vars" /\ var_fut["runner"] \in {"result", "abort"}

\* The messages published by the step being taken.
NewMessages == {published'[i] : i \in (Len(published) + 1)..Len(published')}

\* C37: when the runner resumes with the abort signal set and its next abort
\* check is at the top of the step loop, at the top of a turn or right after
\* the variable handshake, AbortRequested is raised there: no step_started,
\* no agent call, no action and no variables_applied follows, the runner goes
\* to its finally clauses, and the run that ended this way has status aborted
\* and published runner_status aborted as its terminal message.
C37_AbortCheckpoints ==
    /\ [][(abort_event /\ pc' # pc /\ (AtStepLoopTop \/ AtTurnTop \/ AtHandshake)) =>
            /\ outcome' = "abort" /\ pc' = "closing"
            /\ \A m \in NewMessages :
                  m.type \notin {"step_started", "action_executed", "safety_prompt",
                                 "variables_applied", "run_completed"}
                  /\ m # Console("ComputerUse prompt", m.stepId)
            /\ actions' = <<>> \/ actions' = actions]_vars
    /\ [](outcome = "abort" =>
            /\ abort_event
            /\ pc \in {"closing", "finally", "done"}
            /\ RunEnded =>
                 /\ status = "aborted"
                 /\ published[Last(TerminalPositions)] = RunnerStatus("aborted"))

\* The abort signal was set during the last turn of step 1; the step was
\* completed, step 2 was not started and the run ended aborted.
C37_Witness ==
    /\ pc = "done" /\ outcome = "abort" /\ status = "aborted"
    /\ Event("step_completed", 1) \in Published
    /\ Event("step_started", 2) \notin Published
    /\ nsteps = 2

\* ---------------------------------------------------------------------------
\* RunState.status.

\* C38: status is pending or one of completed, aborted, failed (never
\* running); it changes only from pending, only to one of these three, and
\* only when the runner task leaves PlanRunner.run: request_abort, operator
\* replies and clients that arrive later leave it as it is.
C38_StatusChangesOnce ==
    /\ [](status \in {"pending"} \cup TerminalMessages)
    /\ [][status' # status =>
            /\ status = "pending"
            /\ status' \in TerminalMessages
            /\ pc = "closing" /\ pc' = "finally"]_vars
    /\ [][~NotTerminal => status' = status]_vars

\* The run ended completed and request_abort was called afterwards: its
\* abort_requested is the last message published, the status is unchanged.
C38_Witness ==
    /\ pc = "done" /\ status = "completed" /\ outcome = "return"
    /\ abort_event
    /\ published[Len(published)] = RunnerStatus("abort_requested")
    /\ Last(TerminalPositions) < Len(published)

\* ---------------------------------------------------------------------------
\* Operator replies.

\* No confirmation (variable) request waits for a reply: there is no future,
\* or it is completed.
NoConfirmationPending ==
    confirmation_future = "None" \/ conf_fut[confirmation_future] # "pending"
NoVariablesPending ==
    variables_future = "None" \/ var_fut[variables_future] # "pending"

\* C39: while no request is pending, or after the pending future was
\* completed, no handler but the requester's own changes a future, its result
\* or the reply kept for it (confirm_action and submit_variables do nothing); a
\* completed future keeps its result until the requester takes it, and the
\* runner goes on as the first reply said; a request made later starts with a
\* pending future whatever replies came before it.
C39_OneShotReplies ==
    /\ [][(pc' = pc /\ other_pc' = other_pc) =>
            /\ NoConfirmationPending =>
                    UNCHANGED <<confirmation_future, conf_fut, gate>>
            /\ NoVariablesPending =>
                    UNCHANGED <<variables_future, var_fut, var_values>>]_vars
    /\ [][\A c \in Callers :
            /\ conf_fut[c] \in {"true", "false"} => conf_fut'[c] \in {conf_fut[c], "none"}
            /\ var_fut[c] \in {"result", "abort"} => var_fut'[c] \in {var_fut[c], "none"}
            /\ (var_fut[c] = "result" /\ var_fut'[c] = "result") =>
                    var_values' = var_values]_vars
    /\ [][(pc = "wait_conf" /\ pc' = "wait_conf" /\ gate \in {"allowed", "declined"}) =>
            gate' = gate]_vars
    /\ [][(pc = "wait_conf" /\ pc' # "wait_conf") =>
            /\ (pc' = "apply") = (gate = "allowed")
            /\ (error' = "Action declined by operator") = (gate = "declined")]_vars
    /\ [][/\ (confirmation_future = "None" /\ confirmation_future' # "None") =>
                conf_fut'[confirmation_future'] = "pending"
          /\ (variables_future = "None" /\ variables_future' # "None") =>
                var_fut'[variables_future'] = "pending"]_vars

\* Two clients are connected, the first reply to the prompt of the second
\* turn declined the action, and the runner has not resumed yet: a second
\* reply finds the future completed.  A reply to the first turn's prompt was
\* given before.
C39_Witness ==
    /\ subscribers = Subs
    /\ pc = "wait_conf" /\ turn = 2
    /\ confirmation_future = "runner" /\ conf_fut["runner"] = "false"
    /\ gate = "declined"

\* ---------------------------------------------------------------------------
\* Runs started through POST /runs/start.

\* C40: a run started by POST /runs/start gets no checkpoints from its
\* RunnerDispatcher, with or without checkpoints stored for the plan:
\* require_visual_match stays false, the checkpoint helpers are never entered,
\* no checkpoint_evaluated or checkpoint_matched is published, a step gets a
\* further turn only after a failed action, step_completed follows the final
\* frame of the turn at once, and the turns of a step are used up only by
\* failed actions.
C40_NoCheckpointsFromDispatcher ==
    /\ ~require_visual_match
    /\ OfType("checkpoint_evaluated") \cup OfType("checkpoint_matched") = {}
    /\ error # HashHelperError
    /\ \A st \in 1..nsteps :
          /\ Cardinality(TurnsOf(st)) <= 1 + Cardinality(FailuresOf(st))
          /\ (step > st \/ outcome = "return") => Event("step_completed", st) \in Published
    /\ \A i \in OfType("step_completed") : published[i - 1] = Frame(published[i].stepId)
    /\ error = "Exceeded max turns" =>
          Cardinality(FailuresOf(step)) = MAX_TURNS_PER_STEP

\* A plan with stored checkpoints was run: its step was completed after one
\* turn and the run ended completed.
C40_Witness ==
    /\ stored
    /\ pc = "done" /\ status = "completed"
    /\ Cardinality(TurnsOf(1)) = 1
    /\ Event("step_completed", 1) \in Published

====
